---- MODULE Spec2Model ----
(***************************************************************************)
(* Model of envmap's local encrypted file provider (provider/local_file):  *)
(* Get / List / Set on one store path, run by goroutines that share or do  *)
(* not share a provider instance, in one or in several processes.          *)
(*                                                                         *)
(* The file system holds the store file and one temporary file per writer. *)
(* A file is a record: kind "absent" | "empty" | "blob"; a blob is the     *)
(* output of encrypt (nonce, key, plaintext), possibly cut short.          *)
(***************************************************************************)
EXTENDS Integers, Sequences, FiniteSets, TLC

(* ----------------------------- bounds ---------------------------------- *)
\* environment failures (I/O errors, failed syscalls) per run
MaxFaults == 1
\* calls of Get, List and Set per run
MaxCalls == 2

(* --------------------------- topology ---------------------------------- *)
None == "none"
Goroutines == {"g1", "g2", "g3"}
Instances == {"i1", "i2"}
Procs == {"p1", "p2"}
\* g1 and g2 share one *localFile; g3 has its own
InstOf(g) == IF g \in {"g1", "g2"} THEN "i1" ELSE "i2"
ProcOfInst(i) == IF i = "i1" THEN "p1" ELSE "p2"
ProcOf(g) == ProcOfInst(InstOf(g))

(* ----------------------------- data ------------------------------------ *)
\* secret names are strings, modelled as sequences of characters
NameA == <<"p", "/", "A">>
NameB == <<"B">>
Names == {NameA, NameB}
Values == {"v1", "v2"}
\* the key every provider instance derives, and a foreign key
ProviderKey == "k1"
OtherKey == "k2"
\* what the random source can give as a nonce
Nonces == {"n1"}

EmptyMap == [n \in {} |-> "v1"]

\* byte order of the characters in use:
\* '"' < '/' < '<' < 'A' < 'B' < '\' < '_' < 'm' < 'p' < 'v'
Rank(c) == CASE c = "\"" -> 34 [] c = "/" -> 47 [] c = "<" -> 60
             [] c = "A" -> 65 [] c = "B" -> 66 [] c = "\\" -> 92 [] c = "_" -> 95
             [] c = "m" -> 109 [] c = "p" -> 112 [] c = "v" -> 118
             [] OTHER -> 0

RECURSIVE StrLess(_, _)
StrLess(a, b) ==
    IF a = <<>> THEN b # <<>>
    ELSE IF b = <<>> THEN FALSE
    ELSE IF Rank(Head(a)) # Rank(Head(b)) THEN Rank(Head(a)) < Rank(Head(b))
    ELSE StrLess(Tail(a), Tail(b))

HasPrefix(s, p) == Len(p) <= Len(s) /\ SubSeq(s, 1, Len(p)) = p
HasSuffix(s, p) == Len(p) <= Len(s) /\ SubSeq(s, Len(s) - Len(p) + 1, Len(s)) = p
StringsTrimPrefix(s, p) == IF HasPrefix(s, p) THEN SubSeq(s, Len(p) + 1, Len(s)) ELSE s

(* -------------------- record store serialization ----------------------- *)
\* plaintext: a JSON object as its sequence of <<name, value>> members, or
\* bytes that are no JSON object
NotJSON == [json |-> FALSE, pairs |-> <<>>]

RECURSIVE SortedPairs(_, _)
SortedPairs(m, D) ==
    IF D = {} THEN <<>>
    ELSE LET n == CHOOSE x \in D : \A y \in D \ {x} : StrLess(x, y)
         IN  <<<<n, m[n]>>>> \o SortedPairs(m, D \ {n})

\* json.MarshalIndent(entries): the members in sorted key order
MarshalIndent(m) == [json |-> TRUE, pairs |-> SortedPairs(m, DOMAIN m)]

RECURSIVE UnmarshalPairs(_, _)
UnmarshalPairs(pairs, acc) ==
    IF pairs = <<>> THEN acc
    ELSE LET kv == Head(pairs)
             D == DOMAIN acc \cup {kv[1]}
         IN  UnmarshalPairs(Tail(pairs),
                            [n \in D |-> IF n = kv[1] THEN kv[2] ELSE acc[n]])

\* json.Unmarshal(plaintext, &entries)
UnmarshalOK(pt) == pt.json
Unmarshal(pt) == UnmarshalPairs(pt.pairs, EmptyMap)

(* ------------------------------ files ---------------------------------- *)
Absent == [kind |-> "absent", nonce |-> "", key |-> None, pt |-> NotJSON, cut |-> FALSE]
EmptyFile == [kind |-> "empty", nonce |-> "", key |-> None, pt |-> NotJSON, cut |-> FALSE]

\* encrypt(plaintext, key) with the nonce the random source gave
encrypt(pt, key, nonce) ==
    [kind |-> "blob", nonce |-> nonce, key |-> key, pt |-> pt, cut |-> FALSE]

\* a proper, non-empty prefix of a blob
Truncated(blob) == [blob EXCEPT !.cut = TRUE]

\* decrypt(raw, key): gcm.Open fails on a wrong key and on truncated input
decryptOK(raw, key) == raw.kind = "blob" /\ ~raw.cut /\ raw.key = key
decrypt(raw, key) == raw.pt


(* --------------------------- prefix policy ----------------------------- *)
\* the EnvConfig every provider instance is built with
EnvCfg == [PathPrefix |-> <<"p">>, Prefix |-> <<>>]

ensureTrailingSlash(prefix) == IF HasSuffix(prefix, <<"/">>) THEN prefix ELSE prefix \o <<"/">>

ensurePrefixSlash(prefix) ==
    IF prefix = <<>> THEN <<>>
    ELSE IF HasSuffix(prefix, <<"/">>) THEN prefix ELSE prefix \o <<"/">>

ApplyPrefix(envCfg, key) ==
    IF envCfg.PathPrefix # <<>> THEN ensureTrailingSlash(envCfg.PathPrefix) \o key
    ELSE IF envCfg.Prefix # <<>> THEN envCfg.Prefix \o key
    ELSE key

ResolvedPrefix(envCfg) ==
    IF envCfg.PathPrefix # <<>> THEN ensureTrailingSlash(envCfg.PathPrefix)
    ELSE envCfg.Prefix

\* faulty variant of TrimPrefix: prefix is looked at before path_prefix
TrimPrefixPrefixFirst(envCfg, name) ==
    IF envCfg.Prefix # <<>> THEN StringsTrimPrefix(name, envCfg.Prefix)
    ELSE IF envCfg.PathPrefix # <<>>
    THEN StringsTrimPrefix(name, ensureTrailingSlash(envCfg.PathPrefix))
    ELSE name

TrimPrefix(envCfg, name) ==
    IF envCfg.PathPrefix # <<>>
    THEN StringsTrimPrefix(name, ensureTrailingSlash(envCfg.PathPrefix))
    ELSE IF envCfg.Prefix # <<>> THEN StringsTrimPrefix(name, envCfg.Prefix)
    ELSE name

\* the loop of List: the names that pass the filter, and the maps the loop can
\* build (two kept names with one base leave the value of the one ranged last)
ListOutsFor(envCfg, entries, prefix) ==
    LET kept == {n \in DOMAIN entries :
                    ~(prefix # <<>> /\ ~HasPrefix(n, ensurePrefixSlash(prefix)))}
        bases == {TrimPrefix(envCfg, n) : n \in kept}
    IN  {f \in [bases -> Values] :
            \A b \in bases : \E n \in kept : TrimPrefix(envCfg, n) = b /\ entries[n] = f[b]}

(* ------------------------------ state ---------------------------------- *)
VARIABLES
    store,      \* the file at p.path
    tmp,        \* tmp[g]: the temporary file g's writeAllUnlocked created
    osLock,     \* the instance whose descriptor holds flock(2) on path.lock
    flockL,     \* flockL[i]: flock.Flock's "l" flag of instance i
    flockM,     \* flockM[i]: the goroutine inside instance i's Flock.m
    mu,         \* mu[i]: the goroutine holding instance i's p.mu
    pc,         \* pc[g]: where g is in its call
    op,         \* op[g]: the call g makes
    entries,    \* entries[g]: the mapping g's Set read and changed
    ciphertext, \* ciphertext[g]: the blob g's writeAllUnlocked writes
    ret,        \* ret[g]: what fn returned, and then the call
    crashed,    \* crashed[p]: process p was killed
    faultsLeft, \* environment failures (and kills) the run may still see
    callsLeft,  \* calls the run may still make
    logged,     \* goroutines whose Unlock failure was logged
    returned,   \* what the latest call to return returned
    last,       \* history: last[n], the value of n the finished Sets leave
    fresh,      \* history: fresh[g], the names whose last value g's call was
                \* made after, with no Set of them begun since
    world,      \* what a command of the CLI finds: the environment's and the
                \* provider's configuration, the key sources
    cliOut,     \* what the latest command of the CLI did and returned
    pipe,       \* a mapping on its way through serialization and encryption
                \* and back, outside any provider
    fs,         \* modes and contents of the files and directories the write
                \* path and the key generation work on
    registry    \* the provider registry and the outcome of the latest call on it

vars == <<store, tmp, osLock, flockL, flockM, mu, pc, op, entries, ciphertext,
          ret, crashed, faultsLeft, callsLeft, logged, returned, last, fresh,
          world, cliOut, pipe, fs, registry>>
\* the part of the state only the commands of the CLI use
cli == <<world, cliOut>>
NoWorld == [kind |-> None]
\* the parts of the state the storage format, the file modes and the registry
\* are followed in, each by a specification of its own
aside == <<pipe, fs, registry>>
NotUsed == [kind |-> None]

Unknown == "?"
NoOp == [kind |-> None, name |-> <<>>, value |-> "", prefix |-> <<>>, clean |-> FALSE]
NoRet == [err |-> "", value |-> "", out |-> EmptyMap]
Ret(err, value, out) == [err |-> err, value |-> value, out |-> out]
Fail(err) == Ret(err, "", EmptyMap)

\* the stores a provider can find at its path: none, a zero-length file, one it
\* wrote, one written under another key, one whose plaintext is no JSON
InitStores ==
    {Absent, EmptyFile,
     encrypt(MarshalIndent([n \in {NameA} |-> "v1"]), ProviderKey, "n1"),
     encrypt(MarshalIndent([n \in {NameB} |-> "v1"]), OtherKey, "n1"),
     encrypt(NotJSON, ProviderKey, "n1")}

\* faulty variant of ReadErr: without the len(raw) == 0 test a zero-length file
\* goes to decrypt, which rejects it as too short
ReadErrNoLenTest(raw) ==
    IF raw.kind = "absent" THEN ""
    ELSE IF ~decryptOK(raw, ProviderKey) THEN "decrypt local store"
    ELSE IF ~UnmarshalOK(decrypt(raw, ProviderKey)) THEN "parse local store"
    ELSE ""

\* readAllUnlocked on a file, I/O errors aside
ReadErr(raw) ==
    IF raw.kind \in {"absent", "empty"} THEN ""
    ELSE IF ~decryptOK(raw, ProviderKey) THEN "decrypt local store"
    ELSE IF ~UnmarshalOK(decrypt(raw, ProviderKey)) THEN "parse local store"
    ELSE ""
ReadEntries(raw) ==
    IF raw.kind \in {"absent", "empty"} THEN EmptyMap
    ELSE Unmarshal(decrypt(raw, ProviderKey))

Init ==
    /\ store \in InitStores
    /\ tmp = [g \in Goroutines |-> Absent]
    /\ osLock = None
    /\ flockL = [i \in Instances |-> FALSE]
    /\ flockM = [i \in Instances |-> None]
    /\ mu = [i \in Instances |-> None]
    /\ pc = [g \in Goroutines |-> "idle"]
    /\ op = [g \in Goroutines |-> NoOp]
    /\ entries = [g \in Goroutines |-> EmptyMap]
    /\ ciphertext = [g \in Goroutines |-> Absent]
    /\ ret = [g \in Goroutines |-> NoRet]
    /\ crashed = [p \in Procs |-> FALSE]
    /\ faultsLeft = MaxFaults
    /\ callsLeft = MaxCalls
    /\ returned = NoRet
    /\ logged = {}
    /\ last = [n \in Names |->
                 IF ReadErr(store) = "" /\ n \in DOMAIN ReadEntries(store)
                 THEN ReadEntries(store)[n] ELSE Unknown]
    /\ fresh = [g \in Goroutines |-> {}]
    /\ world = NoWorld
    /\ cliOut = NoWorld
    /\ pipe = NotUsed
    /\ fs = NotUsed
    /\ registry = NotUsed

InFlight(g) == pc[g] \notin {"idle", "crashed"}
\* g is running the function it passed to withExclusiveLock
InBody(g) == pc[g] \in {"read", "encode", "createTemp", "write", "sync", "rename", "remove"}
CanFail == faultsLeft > 0

(* ------------------------------ calls ---------------------------------- *)
\* Get, List or Set is called, and withExclusiveLock is entered. Nothing before
\* the body reads the arguments, so they are drawn where the body starts
Called(g) ==
    /\ pc[g] = "idle"
    /\ ~crashed[ProcOf(g)]
    /\ callsLeft > 0
    /\ callsLeft' = callsLeft - 1
    /\ fresh' = [fresh EXCEPT ![g] = {n \in Names : last[n] # Unknown}]

\* the call returns r to its caller. A successful Set of n that overlapped no
\* other Set of n leaves its value as the value of n. A temporary file the call
\* left behind is under a name nothing uses again, and is followed no further
Returned(g, r) ==
    /\ pc' = [pc EXCEPT ![g] = "idle"]
    /\ tmp' = [tmp EXCEPT ![g] = Absent]
    /\ returned' = r
    /\ op' = [op EXCEPT ![g] = NoOp]
    /\ ret' = [ret EXCEPT ![g] = NoRet]
    /\ fresh' = [fresh EXCEPT ![g] = {}]
    /\ last' = IF op[g].kind = "Set" /\ r.err = "" /\ op[g].clean
               THEN [last EXCEPT ![op[g].name] = op[g].value]
               ELSE last

(* ----------------- withExclusiveLock: p.lock.Lock() -------------------- *)
\* Flock.Lock on a handle that is already locked returns nil at once
LockShortCircuit(g) ==
    /\ Called(g)
    /\ flockM[InstOf(g)] = None
    /\ flockL[InstOf(g)]
    /\ pc' = [pc EXCEPT ![g] = "mu"]
    /\ UNCHANGED <<store, tmp, osLock, flockL, flockM, mu, op, entries, ciphertext,
                   ret, crashed, faultsLeft, logged, last, returned>>
    /\ UNCHANGED <<cli, aside>>

\* otherwise it keeps Flock.m and goes into flock(2)
LockEnter(g) ==
    /\ Called(g)
    /\ flockM[InstOf(g)] = None
    /\ ~flockL[InstOf(g)]
    /\ flockM' = [flockM EXCEPT ![InstOf(g)] = g]
    /\ pc' = [pc EXCEPT ![g] = "flock"]
    /\ UNCHANGED <<store, tmp, osLock, flockL, mu, op, entries, ciphertext,
                   ret, crashed, faultsLeft, logged, last, returned>>
    /\ UNCHANGED <<cli, aside>>

\* flock(2) blocks until no other descriptor holds the lock
FlockAcquire(g) ==
    /\ pc[g] = "flock"
    /\ osLock = None
    /\ osLock' = InstOf(g)
    /\ flockL' = [flockL EXCEPT ![InstOf(g)] = TRUE]
    /\ flockM' = [flockM EXCEPT ![InstOf(g)] = None]
    /\ pc' = [pc EXCEPT ![g] = "mu"]
    /\ UNCHANGED <<store, tmp, mu, op, entries, ciphertext,
                   ret, crashed, faultsLeft, logged, last, fresh, returned, callsLeft>>
    /\ UNCHANGED <<cli, aside>>

\* faulty variant of LockFail: the error of Lock is dropped and the call goes on
\* to the mutex and the body
LockFailIgnored(g) ==
    /\ pc[g] = "flock"
    /\ CanFail
    /\ faultsLeft' = faultsLeft - 1
    /\ flockM' = [flockM EXCEPT ![InstOf(g)] = None]
    /\ pc' = [pc EXCEPT ![g] = "mu"]
    /\ UNCHANGED <<store, tmp, osLock, flockL, mu, op, entries, ciphertext,
                   ret, crashed, logged, last, fresh, returned, callsLeft>>
    /\ UNCHANGED <<cli, aside>>

\* Lock fails (the lock file cannot be opened, flock(2) fails): the call returns
\* "acquire lock" before any defer is set up
LockFail(g) ==
    /\ pc[g] = "flock"
    /\ CanFail
    /\ faultsLeft' = faultsLeft - 1
    /\ flockM' = [flockM EXCEPT ![InstOf(g)] = None]
    /\ Returned(g, Fail("acquire lock"))
    /\ UNCHANGED <<store, osLock, flockL, mu, entries, ciphertext,
                   crashed, logged, callsLeft>>
    /\ UNCHANGED <<cli, aside>>

\* p.mu.Lock()
MuLock(g) ==
    /\ pc[g] = "mu"
    /\ mu[InstOf(g)] = None
    /\ mu' = [mu EXCEPT ![InstOf(g)] = g]
    /\ pc' = [pc EXCEPT ![g] = "read"]
    /\ UNCHANGED <<store, tmp, osLock, flockL, flockM, op, entries, ciphertext,
                   ret, crashed, faultsLeft, logged, last, fresh, returned, callsLeft>>
    /\ UNCHANGED <<cli, aside>>

\* faulty variant of MuUnlock: p.mu.Unlock() is not deferred and an exit path
\* misses it
MuUnlockMissed(g) ==
    /\ pc[g] = "muUnlock"
    /\ pc' = [pc EXCEPT ![g] = "unlock"]
    /\ UNCHANGED <<store, tmp, osLock, flockL, flockM, mu, op, entries, ciphertext,
                   ret, crashed, faultsLeft, logged, last, fresh, returned, callsLeft>>
    /\ UNCHANGED <<cli, aside>>

(* ------------- withExclusiveLock: the deferred unlocks ----------------- *)
\* fn has returned ret[g]; defer p.mu.Unlock() runs first
MuUnlock(g) ==
    /\ pc[g] = "muUnlock"
    /\ mu' = [mu EXCEPT ![InstOf(g)] = None]
    /\ pc' = [pc EXCEPT ![g] = "unlock"]
    /\ UNCHANGED <<store, tmp, osLock, flockL, flockM, op, entries, ciphertext,
                   ret, crashed, faultsLeft, logged, last, fresh, returned, callsLeft>>
    /\ UNCHANGED <<cli, aside>>

\* then p.lock.Unlock(): nothing to do on a handle that is not locked, else
\* flock(LOCK_UN), close the descriptor, clear the flag
Unlock(g) ==
    /\ pc[g] = "unlock"
    /\ flockM[InstOf(g)] = None
    /\ IF flockL[InstOf(g)]
       THEN /\ osLock' = None
            /\ flockL' = [flockL EXCEPT ![InstOf(g)] = FALSE]
       ELSE UNCHANGED <<osLock, flockL>>
    /\ Returned(g, ret[g])
    /\ UNCHANGED <<store, flockM, mu, entries, ciphertext,
                   crashed, faultsLeft, logged, callsLeft>>
    /\ UNCHANGED <<cli, aside>>

\* faulty variant of UnlockFail: the error of Unlock becomes the call's result
UnlockFailReturned(g) ==
    /\ pc[g] = "unlock"
    /\ flockM[InstOf(g)] = None
    /\ flockL[InstOf(g)]
    /\ CanFail
    /\ faultsLeft' = faultsLeft - 1
    /\ logged' = logged \cup {g}
    /\ Returned(g, Fail("unlock"))
    /\ UNCHANGED <<store, osLock, flockL, flockM, mu, entries, ciphertext,
                   crashed, callsLeft>>
    /\ UNCHANGED <<cli, aside>>

\* flock(LOCK_UN) fails: Unlock returns the error with the handle still locked,
\* and the error is logged
UnlockFail(g) ==
    /\ pc[g] = "unlock"
    /\ flockM[InstOf(g)] = None
    /\ flockL[InstOf(g)]
    /\ CanFail
    /\ faultsLeft' = faultsLeft - 1
    /\ logged' = logged \cup {g}
    /\ Returned(g, ret[g])
    /\ UNCHANGED <<store, osLock, flockL, flockM, mu, entries, ciphertext,
                   crashed, callsLeft>>
    /\ UNCHANGED <<cli, aside>>


(* --------------------------- the bodies -------------------------------- *)
\* the call's arguments, drawn as the body starts. A Set of n makes the value of
\* n unknown, and every Set of n under way is no longer the only one
Bound(g, c) ==
    LET others == {h \in Goroutines \ {g} :
                         InFlight(h) /\ op[h].kind = "Set" /\ op[h].name = c.name}
    IN  /\ op' = [h \in Goroutines |->
                    IF h = g
                    THEN [kind |-> c.kind, name |-> c.name, value |-> c.value,
                          prefix |-> c.prefix, clean |-> c.kind = "Set" /\ others = {}]
                    ELSE IF c.kind = "Set" /\ h \in others
                    THEN [op[h] EXCEPT !.clean = FALSE]
                    ELSE op[h]]
        /\ last' = IF c.kind = "Set" THEN [last EXCEPT ![c.name] = Unknown] ELSE last
        /\ fresh' = IF c.kind = "Set" THEN [h \in Goroutines |-> fresh[h] \ {c.name}]
                     ELSE fresh

\* fn returns r (its locals are gone): the deferred unlocks run next
BodyReturns(g, r) ==
    /\ pc' = [pc EXCEPT ![g] = "muUnlock"]
    /\ ret' = [ret EXCEPT ![g] = r]
    /\ entries' = [entries EXCEPT ![g] = EmptyMap]
    /\ ciphertext' = [ciphertext EXCEPT ![g] = Absent]

\* os.ReadFile fails with something else than ErrNotExist
ReadIOError(g) ==
    /\ pc[g] = "read"
    /\ CanFail
    /\ faultsLeft' = faultsLeft - 1
    /\ \E kind \in {"Get", "List", "Set"} : op' = [op EXCEPT ![g].kind = kind]
    /\ BodyReturns(g, Fail("read local store"))
    /\ UNCHANGED <<store, tmp, osLock, flockL, flockM, mu, crashed, logged,
                   returned, last, fresh, callsLeft>>
    /\ UNCHANGED <<cli, aside>>

\* faulty variant of GetBody: without the ok test the lookup of a name that is
\* not there gives the empty string, with no error
GetBodyNoOkTest(g) ==
    /\ pc[g] = "read"
    /\ \E c \in [kind : {"Get"}, name : Names, value : {""}, prefix : {<<>>}] :
          /\ Bound(g, c)
          /\ LET e == ReadEntries(store)
             IN  IF ReadErr(store) # "" THEN BodyReturns(g, Fail(ReadErr(store)))
                 ELSE IF c.name \notin DOMAIN e THEN BodyReturns(g, Ret("", "", EmptyMap))
                 ELSE BodyReturns(g, Ret("", e[c.name], EmptyMap))
    /\ UNCHANGED <<store, tmp, osLock, flockL, flockM, mu,
                   crashed, faultsLeft, logged, returned, callsLeft>>
    /\ UNCHANGED <<cli, aside>>

\* Get: readAllUnlocked, then the lookup
GetBody(g) ==
    /\ pc[g] = "read"
    /\ \E c \in [kind : {"Get"}, name : Names, value : {""}, prefix : {<<>>}] :
          /\ Bound(g, c)
          /\ LET e == ReadEntries(store)
             IN  IF ReadErr(store) # "" THEN BodyReturns(g, Fail(ReadErr(store)))
                 ELSE IF c.name \notin DOMAIN e THEN BodyReturns(g, Fail("missing secret"))
                 ELSE BodyReturns(g, Ret("", e[c.name], EmptyMap))
    /\ UNCHANGED <<store, tmp, osLock, flockL, flockM, mu,
                   crashed, faultsLeft, logged, returned, callsLeft>>
    /\ UNCHANGED <<cli, aside>>

\* faulty variant of ListBody: a store that is not there is created, empty
ListBodyCreates(g) ==
    /\ pc[g] = "read"
    /\ \E c \in [kind : {"List"}, name : {<<>>}, value : {""}, prefix : {<<>>, <<"p">>}] :
          /\ Bound(g, c)
          /\ IF ReadErr(store) # "" THEN BodyReturns(g, Fail(ReadErr(store)))
             ELSE \E out \in ListOutsFor(EnvCfg, ReadEntries(store), c.prefix) :
                     BodyReturns(g, Ret("", "", out))
    /\ store' = IF store = Absent THEN EmptyFile ELSE store
    /\ UNCHANGED <<tmp, osLock, flockL, flockM, mu,
                   crashed, faultsLeft, logged, returned, callsLeft>>
    /\ UNCHANGED <<cli, aside>>

\* List: readAllUnlocked, then the filter loop
ListBody(g) ==
    /\ pc[g] = "read"
    /\ \E c \in [kind : {"List"}, name : {<<>>}, value : {""}, prefix : {<<>>, <<"p">>}] :
          /\ Bound(g, c)
          /\ IF ReadErr(store) # "" THEN BodyReturns(g, Fail(ReadErr(store)))
             ELSE \E out \in ListOutsFor(EnvCfg, ReadEntries(store), c.prefix) :
                     BodyReturns(g, Ret("", "", out))
    /\ UNCHANGED <<store, tmp, osLock, flockL, flockM, mu,
                   crashed, faultsLeft, logged, returned, callsLeft>>
    /\ UNCHANGED <<cli, aside>>

\* faulty variant of SetRead: a store that cannot be read is taken for an empty
\* one
SetReadRecovers(g) ==
    /\ pc[g] = "read"
    /\ \E c \in [kind : {"Set"}, name : Names, value : Values, prefix : {<<>>}] :
          /\ Bound(g, c)
          /\ LET e == IF ReadErr(store) # "" THEN EmptyMap ELSE ReadEntries(store)
                 D == DOMAIN e \cup {c.name}
             IN  /\ entries' = [entries EXCEPT ![g] =
                                   [n \in D |-> IF n = c.name THEN c.value ELSE e[n]]]
                 /\ pc' = [pc EXCEPT ![g] = "encode"]
                 /\ UNCHANGED <<ret, ciphertext>>
    /\ UNCHANGED <<store, tmp, osLock, flockL, flockM, mu,
                   crashed, faultsLeft, logged, returned, callsLeft>>
    /\ UNCHANGED <<cli, aside>>

\* Set: readAllUnlocked; an error ends the body, else entries[name] = value
SetRead(g) ==
    /\ pc[g] = "read"
    /\ \E c \in [kind : {"Set"}, name : Names, value : Values, prefix : {<<>>}] :
          /\ Bound(g, c)
          /\ IF ReadErr(store) # ""
             THEN BodyReturns(g, Fail(ReadErr(store)))
             ELSE LET e == ReadEntries(store)
                      D == DOMAIN e \cup {c.name}
                  IN  /\ entries' = [entries EXCEPT ![g] =
                                        [n \in D |-> IF n = c.name THEN c.value ELSE e[n]]]
                      /\ pc' = [pc EXCEPT ![g] = "encode"]
                      /\ UNCHANGED <<ret, ciphertext>>
    /\ UNCHANGED <<store, tmp, osLock, flockL, flockM, mu,
                   crashed, faultsLeft, logged, returned, callsLeft>>
    /\ UNCHANGED <<cli, aside>>

(* ------------------------- writeAllUnlocked ---------------------------- *)
\* json.MarshalIndent and encrypt, with the nonce the random source gives, then
\* os.MkdirAll, which changes nothing that is followed here
Encode(g) ==
    /\ pc[g] = "encode"
    /\ \E nonce \in Nonces :
          ciphertext' = [ciphertext EXCEPT ![g] =
                            encrypt(MarshalIndent(entries[g]), ProviderKey, nonce)]
    /\ pc' = [pc EXCEPT ![g] = "createTemp"]
    /\ UNCHANGED <<store, tmp, osLock, flockL, flockM, mu, op, entries,
                   ret, crashed, faultsLeft, logged, last, fresh, returned, callsLeft>>
    /\ UNCHANGED <<cli, aside>>

\* a step of writeAllUnlocked before the temporary file exists fails (the random
\* source, MkdirAll, CreateTemp): the error is returned
WriteFailsEarly(g) ==
    /\ pc[g] \in {"encode", "createTemp"}
    /\ CanFail
    /\ faultsLeft' = faultsLeft - 1
    /\ \E err \in IF pc[g] = "encode"
                  THEN {"encrypt local store", "create local store dir"}
                  ELSE {"create temp file"} :
          BodyReturns(g, Fail(err))
    /\ UNCHANGED <<store, tmp, osLock, flockL, flockM, mu, op,
                   crashed, logged, last, fresh, returned, callsLeft>>
    /\ UNCHANGED <<cli, aside>>

\* os.CreateTemp(dir, ".secrets-*.tmp"): a new, empty file; then tmp.Chmod(0o600)
CreateTemp(g) ==
    /\ pc[g] = "createTemp"
    /\ tmp' = [tmp EXCEPT ![g] = EmptyFile]
    /\ pc' = [pc EXCEPT ![g] = "write"]
    /\ UNCHANGED <<store, osLock, flockL, flockM, mu, op, entries, ciphertext,
                   ret, crashed, faultsLeft, logged, last, fresh, returned, callsLeft>>
    /\ UNCHANGED <<cli, aside>>

\* writeAllUnlocked returns err with success false: the deferred cleanup is next
ReturnsToCleanup(g, err) ==
    /\ pc' = [pc EXCEPT ![g] = "remove"]
    /\ ret' = [ret EXCEPT ![g] = Fail(err)]
    /\ entries' = [entries EXCEPT ![g] = EmptyMap]
    /\ ciphertext' = [ciphertext EXCEPT ![g] = Absent]

\* the file is created and tmp.Chmod fails
ChmodFail(g) ==
    /\ pc[g] = "createTemp"
    /\ CanFail
    /\ faultsLeft' = faultsLeft - 1
    /\ tmp' = [tmp EXCEPT ![g] = EmptyFile]
    /\ ReturnsToCleanup(g, "chmod temp file")
    /\ UNCHANGED <<store, osLock, flockL, flockM, mu, op,
                   crashed, logged, last, fresh, returned, callsLeft>>
    /\ UNCHANGED <<cli, aside>>

\* faulty variant of TmpWrite: the bytes are written to the store path itself
TmpWriteInPlace(g) ==
    /\ pc[g] = "write"
    /\ store' = ciphertext[g]
    /\ pc' = [pc EXCEPT ![g] = "sync"]
    /\ UNCHANGED <<tmp, osLock, flockL, flockM, mu, op, entries, ciphertext,
                   ret, crashed, faultsLeft, logged, last, fresh, returned, callsLeft>>
    /\ UNCHANGED <<cli, aside>>

\* tmp.Write(ciphertext)
TmpWrite(g) ==
    /\ pc[g] = "write"
    /\ tmp' = [tmp EXCEPT ![g] = ciphertext[g]]
    /\ pc' = [pc EXCEPT ![g] = "sync"]
    /\ UNCHANGED <<store, osLock, flockL, flockM, mu, op, entries, ciphertext,
                   ret, crashed, faultsLeft, logged, last, fresh, returned, callsLeft>>
    /\ UNCHANGED <<cli, aside>>

\* faulty variant of TmpWriteFail: the bytes go to the store path itself, not
\* to a temporary file
WriteInPlaceFail(g) ==
    /\ pc[g] = "write"
    /\ CanFail
    /\ faultsLeft' = faultsLeft - 1
    /\ \E f \in {EmptyFile, Truncated(ciphertext[g])} : store' = f
    /\ ReturnsToCleanup(g, "write temp file")
    /\ UNCHANGED <<tmp, osLock, flockL, flockM, mu, op,
                   crashed, logged, last, fresh, returned, callsLeft>>
    /\ UNCHANGED <<cli, aside>>

\* the write fails after none or some of the bytes
TmpWriteFail(g) ==
    /\ pc[g] = "write"
    /\ CanFail
    /\ faultsLeft' = faultsLeft - 1
    /\ \E f \in {EmptyFile, Truncated(ciphertext[g])} : tmp' = [tmp EXCEPT ![g] = f]
    /\ ReturnsToCleanup(g, "write temp file")
    /\ UNCHANGED <<store, osLock, flockL, flockM, mu, op,
                   crashed, logged, last, fresh, returned, callsLeft>>
    /\ UNCHANGED <<cli, aside>>

\* tmp.Sync() and tmp.Close()
TmpSync(g) ==
    /\ pc[g] = "sync"
    /\ pc' = [pc EXCEPT ![g] = "rename"]
    /\ UNCHANGED <<store, tmp, osLock, flockL, flockM, mu, op, entries, ciphertext,
                   ret, crashed, faultsLeft, logged, last, fresh, returned, callsLeft>>
    /\ UNCHANGED <<cli, aside>>

\* sync, close or rename fails
WriteFailsLate(g) ==
    /\ pc[g] \in {"sync", "rename"}
    /\ CanFail
    /\ faultsLeft' = faultsLeft - 1
    /\ \E err \in IF pc[g] = "sync" THEN {"sync temp file", "close temp file"}
                  ELSE {"rename temp file"} :
          ReturnsToCleanup(g, err)
    /\ UNCHANGED <<store, tmp, osLock, flockL, flockM, mu, op,
                   crashed, logged, last, fresh, returned, callsLeft>>
    /\ UNCHANGED <<cli, aside>>

\* os.Rename(tmpPath, p.path): the store becomes the temporary file; success
Rename(g) ==
    /\ pc[g] = "rename"
    /\ store' = tmp[g]
    /\ tmp' = [tmp EXCEPT ![g] = Absent]
    /\ BodyReturns(g, NoRet)
    /\ UNCHANGED <<osLock, flockL, flockM, mu, op,
                   crashed, faultsLeft, logged, last, fresh, returned, callsLeft>>
    /\ UNCHANGED <<cli, aside>>

\* faulty variant of RemoveTmp: the cleanup removes p.path
RemoveStore(g) ==
    /\ pc[g] = "remove"
    /\ store' = Absent
    /\ pc' = [pc EXCEPT ![g] = "muUnlock"]
    /\ UNCHANGED <<tmp, osLock, flockL, flockM, mu, op, entries, ciphertext,
                   ret, crashed, faultsLeft, logged, last, fresh, returned, callsLeft>>
    /\ UNCHANGED <<cli, aside>>

\* the deferred cleanup when success is false: os.Remove(tmpPath)
RemoveTmp(g) ==
    /\ pc[g] = "remove"
    /\ tmp' = [tmp EXCEPT ![g] = Absent]
    /\ pc' = [pc EXCEPT ![g] = "muUnlock"]
    /\ UNCHANGED <<store, osLock, flockL, flockM, mu, op, entries, ciphertext,
                   ret, crashed, faultsLeft, logged, last, fresh, returned, callsLeft>>
    /\ UNCHANGED <<cli, aside>>

\* os.Remove fails, as it does when what failed the step before is still there
\* (the directory cannot be written to): its result is not looked at, the file
\* stays
RemoveTmpFail(g) ==
    /\ pc[g] = "remove"
    /\ pc' = [pc EXCEPT ![g] = "muUnlock"]
    /\ UNCHANGED <<store, tmp, osLock, flockL, flockM, mu, op, entries, ciphertext,
                   ret, crashed, faultsLeft, logged, last, fresh, returned, callsLeft>>
    /\ UNCHANGED <<cli, aside>>

(* ------------------------------ crash ---------------------------------- *)
\* process p is killed: its goroutines and their memory are gone, the kernel
\* closes its descriptors (which drops its flock), its files stay as they are;
\* a write under way may have put only some of its bytes into the file
Crash(p) ==
    /\ ~crashed[p]
    /\ CanFail
    /\ faultsLeft' = faultsLeft - 1
    /\ \E g \in Goroutines : ProcOf(g) = p /\ InFlight(g)
    /\ crashed' = [crashed EXCEPT ![p] = TRUE]
    /\ pc' = [g \in Goroutines |-> IF ProcOf(g) = p THEN "crashed" ELSE pc[g]]
    /\ osLock' = IF osLock # None /\ ProcOfInst(osLock) = p THEN None ELSE osLock
    /\ flockL' = [i \in Instances |-> IF ProcOfInst(i) = p THEN FALSE ELSE flockL[i]]
    /\ flockM' = [i \in Instances |-> IF ProcOfInst(i) = p THEN None ELSE flockM[i]]
    /\ mu' = [i \in Instances |-> IF ProcOfInst(i) = p THEN None ELSE mu[i]]
    /\ op' = [g \in Goroutines |-> IF ProcOf(g) = p THEN NoOp ELSE op[g]]
    /\ entries' = [g \in Goroutines |-> IF ProcOf(g) = p THEN EmptyMap ELSE entries[g]]
    /\ ciphertext' = [g \in Goroutines |-> IF ProcOf(g) = p THEN Absent ELSE ciphertext[g]]
    /\ ret' = [g \in Goroutines |-> IF ProcOf(g) = p THEN NoRet ELSE ret[g]]
    /\ fresh' = [g \in Goroutines |-> IF ProcOf(g) = p THEN {} ELSE fresh[g]]
    /\ \E cutShort \in SUBSET {g \in Goroutines : ProcOf(g) = p /\ pc[g] = "write"} :
          tmp' = [g \in Goroutines |->
                    IF g \in cutShort THEN Truncated(ciphertext[g]) ELSE tmp[g]]
    /\ UNCHANGED <<store, logged, last, returned, callsLeft>>
    /\ UNCHANGED <<cli, aside>>

Next ==
    \/ \E g \in Goroutines :
          \/ LockShortCircuit(g) \/ LockEnter(g) \/ FlockAcquire(g) \/ LockFail(g)
          \/ MuLock(g)
          \/ ReadIOError(g) \/ GetBody(g) \/ ListBody(g) \/ SetRead(g)
          \/ Encode(g) \/ WriteFailsEarly(g) \/ CreateTemp(g) \/ ChmodFail(g)
          \/ TmpWrite(g) \/ TmpWriteFail(g) \/ TmpSync(g)
          \/ WriteFailsLate(g) \/ Rename(g) \/ RemoveTmp(g) \/ RemoveTmpFail(g)
          \/ MuUnlock(g) \/ Unlock(g) \/ UnlockFail(g)
    \/ \E p \in Procs : Crash(p)

Spec == Init /\ [][Next]_vars

\* the same program where nothing fails and no process is killed; it has two
\* more calls to make
InitQuiet ==
    \E s \in InitStores :
       /\ store = s
       /\ tmp = [g \in Goroutines |-> Absent]
       /\ osLock = None
       /\ flockL = [i \in Instances |-> FALSE]
       /\ flockM = [i \in Instances |-> None]
       /\ mu = [i \in Instances |-> None]
       /\ pc = [g \in Goroutines |-> "idle"]
       /\ op = [g \in Goroutines |-> NoOp]
       /\ entries = [g \in Goroutines |-> EmptyMap]
       /\ ciphertext = [g \in Goroutines |-> Absent]
       /\ ret = [g \in Goroutines |-> NoRet]
       /\ crashed = [p \in Procs |-> FALSE]
       /\ faultsLeft = 0
       /\ callsLeft = MaxCalls + 2
       /\ logged = {}
       /\ returned = NoRet
       /\ last = [n \in Names |->
                    IF ReadErr(s) = "" /\ n \in DOMAIN ReadEntries(s)
                    THEN ReadEntries(s)[n] ELSE Unknown]
       /\ fresh = [g \in Goroutines |-> {}]
       /\ world = NoWorld
       /\ cliOut = NoWorld
       /\ pipe = NotUsed
       /\ fs = NotUsed
       /\ registry = NotUsed

Quiet ==
    InitQuiet
    /\ [][\E g \in Goroutines :
             \/ LockShortCircuit(g) \/ LockEnter(g) \/ FlockAcquire(g)
             \/ MuLock(g)
             \/ GetBody(g) \/ ListBody(g) \/ SetRead(g)
             \/ Encode(g) \/ CreateTemp(g) \/ TmpWrite(g) \/ TmpSync(g)
             \/ Rename(g)
             \/ MuUnlock(g) \/ Unlock(g)]_vars


\* the same program under a fair scheduler: a goroutine that is inside a call
\* and can take its next step again and again (the lock it waits for is free
\* again and again) does take it. Calls are made or not
Live ==
    InitQuiet
    /\ [][\E g \in Goroutines :
             \/ LockShortCircuit(g) \/ LockEnter(g) \/ FlockAcquire(g)
             \/ MuLock(g)
             \/ GetBody(g) \/ ListBody(g) \/ SetRead(g)
             \/ Encode(g) \/ CreateTemp(g) \/ TmpWrite(g) \/ TmpSync(g)
             \/ Rename(g)
             \/ MuUnlock(g) \/ Unlock(g)]_vars
    /\ \A g \in Goroutines :
          SF_vars(FlockAcquire(g) \/ MuLock(g)
                    \/ GetBody(g) \/ ListBody(g) \/ SetRead(g)
                    \/ Encode(g) \/ CreateTemp(g) \/ TmpWrite(g) \/ TmpSync(g)
                    \/ Rename(g)
                    \/ MuUnlock(g) \/ Unlock(g))

(* ----------------------- the init wizard's reset ----------------------- *)
\* resetLocalStoreIfNeeded(providerCfg), called by runInteractiveInit between
\* its provider calls, before the WriteSecret of each imported key: nothing for
\* a provider that is not a local one, an error without a path, else
\* os.Remove(providerCfg.Path), where a file that is not there is no error. No
\* lock is taken. What the removal deletes is expected in the store no more
resetLocalStoreIfNeeded(g) ==
    /\ pc[g] = "idle"
    /\ ~crashed[ProcOf(g)]
    /\ \E type \in {"local-file", "local-store", "aws-ssm"}, path \in {"", "store"} :
          IF type \notin {"local-file", "local-store"}
          THEN UNCHANGED <<store, returned, last, fresh, op>>
          ELSE IF path = ""
          THEN /\ returned' = Fail("local-file provider missing path; cannot reset store")
               /\ UNCHANGED <<store, last, fresh, op>>
          ELSE /\ store' = Absent
               /\ returned' = NoRet
               /\ last' = [n \in Names |-> Unknown]
               /\ fresh' = [h \in Goroutines |-> {}]
               /\ op' = [h \in Goroutines |-> [op[h] EXCEPT !.clean = FALSE]]
    /\ UNCHANGED <<tmp, osLock, flockL, flockM, mu, pc, entries, ciphertext,
                   ret, crashed, faultsLeft, logged, callsLeft>>
    /\ UNCHANGED <<cli, aside>>

\* two processes of one goroutine each, as the commands of the CLI are: the
\* wizard (g1) and another command (g3) on the same store path; nothing fails
Wizard ==
    InitQuiet
    /\ [][\/ \E g \in {"g1", "g3"} :
                \/ LockEnter(g) \/ FlockAcquire(g)
                \/ MuLock(g)
                \/ GetBody(g) \/ ListBody(g) \/ SetRead(g)
                \/ Encode(g) \/ CreateTemp(g) \/ TmpWrite(g) \/ TmpSync(g)
                \/ Rename(g)
                \/ MuUnlock(g) \/ Unlock(g)
          \/ resetLocalStoreIfNeeded("g1")]_vars

(* ===================== the commands of the CLI ========================= *)
\* Every command builds a provider of its own (NewProvider) and makes one call
\* on it; commands run one after the other.

\* the keys the commands are given, and the environments they are given for
CliKeys == {<<"A">>, <<"B">>}
EnvCfgs ==
    {[PathPrefix |-> <<"p">>, Prefix |-> <<>>],
     [PathPrefix |-> <<"p", "/">>, Prefix |-> <<>>],
     [PathPrefix |-> <<"p", "/", "/">>, Prefix |-> <<>>],
     [PathPrefix |-> <<>>, Prefix |-> <<"m", "_">>],
     [PathPrefix |-> <<"p">>, Prefix |-> <<"m", "_">>],
     [PathPrefix |-> <<>>, Prefix |-> <<>>]}

\* len(data) < 16
MinKeyLen == 16
\* info.Mode().Perm()&0o077
GroupOtherBits == 63

Bytes(n, b) == [i \in 1..n |-> b]
\* a value of the key variable that is not empty
KeyEnvValue == <<"e">>
\* what a command finds: Encryption == nil and the EncryptionConfigs there
\* are; the file at the key path, none or one with permission bits 0o600,
\* 0o640 or 0o604 that holds 15 or 16 bytes
Worlds ==
    LET NoEncryption == [nil |-> TRUE, KeyEnv |-> "", KeyFile |-> ""]
        EncryptionConfigs ==
            {NoEncryption}
            \cup [nil : {FALSE}, KeyEnv : {"", "KEYVAR"}, KeyFile : {"", "keyfile"}]
        NoKeyFile == [exists |-> FALSE, perm |-> 0, data |-> <<>>]
        KeyFiles ==
            {NoKeyFile} \cup
            [exists : {TRUE}, perm : {384, 416, 388},
             data : {Bytes(MinKeyLen - 1, "f"), Bytes(MinKeyLen, "f")}]
    IN  [kind : {"world"}, envCfg : EnvCfgs,
         providerCfg : [Path : {"", "store"}, Encryption : EncryptionConfigs],
         getenv : {<<>>, KeyEnvValue}, keyFile : KeyFiles]

\* HKDF-SHA256 of the material with the fixed info string: a function of the
\* material alone, which gives the materials in use different keys
deriveKey(material) ==
    CASE material = KeyEnvValue -> "k1"
      [] material = Bytes(MinKeyLen, "f") -> "k2"
      [] OTHER -> "k3"

\* faulty variant of loadKeyMaterial: the permission bits are not looked at
loadKeyMaterialAnyMode(cfg, w) ==
    IF cfg.KeyEnv # ""
    THEN IF w.getenv # <<>> THEN [err |-> "", data |-> w.getenv]
         ELSE [err |-> "key env var is empty or not set", data |-> <<>>]
    ELSE IF cfg.KeyFile = "" THEN [err |-> "no key source provided", data |-> <<>>]
    ELSE IF ~w.keyFile.exists THEN [err |-> "stat key file", data |-> <<>>]
    ELSE IF Len(w.keyFile.data) < MinKeyLen
    THEN [err |-> "key file is too short", data |-> <<>>]
    ELSE [err |-> "", data |-> w.keyFile.data]

\* faulty variant of loadKeyMaterial: a key file that is configured comes first
loadKeyMaterialFileFirst(cfg, w) ==
    IF cfg.KeyFile # ""
    THEN IF ~w.keyFile.exists THEN [err |-> "stat key file", data |-> <<>>]
         ELSE IF w.keyFile.perm % (GroupOtherBits + 1) # 0
         THEN [err |-> "key file is too permissive", data |-> <<>>]
         ELSE IF Len(w.keyFile.data) < MinKeyLen
         THEN [err |-> "key file is too short", data |-> <<>>]
         ELSE [err |-> "", data |-> w.keyFile.data]
    ELSE IF cfg.KeyEnv = "" THEN [err |-> "no key source provided", data |-> <<>>]
    ELSE IF w.getenv # <<>> THEN [err |-> "", data |-> w.getenv]
    ELSE [err |-> "key env var is empty or not set", data |-> <<>>]

\* faulty variant of loadKeyMaterial: the value of the key variable is held to
\* the minimum length of a key file
loadKeyMaterialEnvMinLen(cfg, w) ==
    IF cfg.KeyEnv # ""
    THEN IF w.getenv = <<>>
         THEN [err |-> "key env var is empty or not set", data |-> <<>>]
         ELSE IF Len(w.getenv) < MinKeyLen
         THEN [err |-> "key env var is too short", data |-> <<>>]
         ELSE [err |-> "", data |-> w.getenv]
    ELSE IF cfg.KeyFile = "" THEN [err |-> "no key source provided", data |-> <<>>]
    ELSE IF ~w.keyFile.exists THEN [err |-> "stat key file", data |-> <<>>]
    ELSE IF w.keyFile.perm % (GroupOtherBits + 1) # 0
    THEN [err |-> "key file is too permissive", data |-> <<>>]
    ELSE IF Len(w.keyFile.data) < MinKeyLen
    THEN [err |-> "key file is too short", data |-> <<>>]
    ELSE [err |-> "", data |-> w.keyFile.data]

loadKeyMaterial(cfg, w) ==
    IF cfg.KeyEnv # ""
    THEN IF w.getenv # <<>> THEN [err |-> "", data |-> w.getenv]
         ELSE [err |-> "key env var is empty or not set", data |-> <<>>]
    ELSE IF cfg.KeyFile = "" THEN [err |-> "no key source provided", data |-> <<>>]
    ELSE IF ~w.keyFile.exists THEN [err |-> "stat key file", data |-> <<>>]
    ELSE IF w.keyFile.perm % (GroupOtherBits + 1) # 0
    THEN [err |-> "key file is too permissive", data |-> <<>>]
    ELSE IF Len(w.keyFile.data) < MinKeyLen
    THEN [err |-> "key file is too short", data |-> <<>>]
    ELSE [err |-> "", data |-> w.keyFile.data]

\* a (Provider, error) pair with a nil provider
NoProvider ==
    [nil |-> TRUE, envCfg |-> [PathPrefix |-> <<>>, Prefix |-> <<>>], key |-> None,
     path |-> "", lister |-> FALSE]
Built(p, err) == [p |-> p, err |-> err]

\* faulty variant of newLocalFile: the path is not looked at
newLocalFileAnyPath(envCfg, providerCfg, w) ==
    IF providerCfg.Encryption.nil
    THEN Built(NoProvider, "local-file provider requires encryption configuration")
    ELSE LET km == loadKeyMaterial(providerCfg.Encryption, w)
         IN  IF km.err # "" THEN Built(NoProvider, km.err)
             ELSE Built([nil |-> FALSE, envCfg |-> envCfg, key |-> deriveKey(km.data),
                         path |-> providerCfg.Path, lister |-> FALSE], "")

\* newLocalFile: the localFile it returns has Get, List and Set, and no
\* ListWithMetadata
newLocalFile(envCfg, providerCfg, w) ==
    IF providerCfg.Path = "" THEN Built(NoProvider, "local-file provider missing path")
    ELSE IF providerCfg.Encryption.nil
    THEN Built(NoProvider, "local-file provider requires encryption configuration")
    ELSE LET km == loadKeyMaterial(providerCfg.Encryption, w)
         IN  IF km.err # "" THEN Built(NoProvider, km.err)
             ELSE Built([nil |-> FALSE, envCfg |-> envCfg, key |-> deriveKey(km.data),
                         path |-> providerCfg.Path, lister |-> FALSE], "")

\* readAllUnlocked of a provider with this key, I/O errors aside
readAllUnlocked(raw, key) ==
    IF raw.kind \in {"absent", "empty"} THEN [err |-> "", entries |-> EmptyMap]
    ELSE IF ~decryptOK(raw, key) THEN [err |-> "decrypt local store", entries |-> EmptyMap]
    ELSE IF ~UnmarshalOK(decrypt(raw, key))
    THEN [err |-> "parse local store", entries |-> EmptyMap]
    ELSE [err |-> "", entries |-> Unmarshal(decrypt(raw, key))]

\* the calls on a provider p whose store file is raw, when nothing fails under
\* them and no other call is under way: what they return, and for Set the file
\* they leave
Get(p, raw, name) ==
    LET r == readAllUnlocked(raw, p.key)
    IN  IF r.err # "" THEN [err |-> r.err, value |-> ""]
        ELSE IF name \notin DOMAIN r.entries THEN [err |-> "missing secret", value |-> ""]
        ELSE [err |-> "", value |-> r.entries[name]]

List(p, raw, prefix) ==
    LET r == readAllUnlocked(raw, p.key)
    IN  IF r.err # "" THEN {[err |-> r.err, out |-> EmptyMap]}
        ELSE {[err |-> "", out |-> f] : f \in ListOutsFor(p.envCfg, r.entries, prefix)}

Set(p, raw, name, value, nonce) ==
    LET r == readAllUnlocked(raw, p.key)
        D == DOMAIN r.entries \cup {name}
        e == [n \in D |-> IF n = name THEN value ELSE r.entries[n]]
    IN  IF r.err # "" THEN [err |-> r.err, store |-> raw]
        ELSE [err |-> "", store |-> encrypt(MarshalIndent(e), p.key, nonce)]

(* --------------------------- metadata ---------------------------------- *)
\* the zero time.Time: "unknown"
ZeroTime == "0001-01-01T00:00:00Z"
SecretRecord(value, createdAt) == [Value |-> value, CreatedAt |-> createdAt]

\* the provider p with the extended capability

\* the extended capability: the filtering and prefix rules of List, and for
\* every name the creation time its entry in the store holds. The entries Set
\* writes are name: value pairs, which hold none
ListWithMetadata(p, raw, prefix) ==
    {[err |-> r.err,
      records |-> [k \in DOMAIN r.out |-> SecretRecord(r.out[k], ZeroTime)]] :
        r \in List(p, raw, prefix)}

\* faulty variant of ListOrDescribe: the fallback keeps the keys and loses the
\* values
ListOrDescribeNoValues(p, raw, prefix) ==
    IF p.lister THEN ListWithMetadata(p, raw, prefix)
    ELSE {IF r.err # "" THEN [err |-> r.err, records |-> EmptyMap]
          ELSE [err |-> "",
                records |-> [k \in DOMAIN r.out |-> SecretRecord("", ZeroTime)]] :
             r \in List(p, raw, prefix)}

ListOrDescribe(p, raw, prefix) ==
    IF p.lister THEN ListWithMetadata(p, raw, prefix)
    ELSE {IF r.err # "" THEN [err |-> r.err, records |-> EmptyMap]
          ELSE [err |-> "",
                records |-> [k \in DOMAIN r.out |-> SecretRecord(r.out[k], ZeroTime)]] :
             r \in List(p, raw, prefix)}

(* --------------------------- the commands ------------------------------ *)
\* what the calls of the provider section use, which no command changes
calls == <<tmp, osLock, flockL, flockM, mu, pc, op, entries, ciphertext, ret,
           crashed, faultsLeft, callsLeft, logged, returned, last, fresh>>

\* no call of a provider is under way
NoCalls ==
    /\ tmp = [g \in Goroutines |-> Absent]
    /\ osLock = None
    /\ flockL = [i \in Instances |-> FALSE]
    /\ flockM = [i \in Instances |-> None]
    /\ mu = [i \in Instances |-> None]
    /\ pc = [g \in Goroutines |-> "idle"]
    /\ op = [g \in Goroutines |-> NoOp]
    /\ entries = [g \in Goroutines |-> EmptyMap]
    /\ ciphertext = [g \in Goroutines |-> Absent]
    /\ ret = [g \in Goroutines |-> NoRet]
    /\ crashed = [p \in Procs |-> FALSE]
    /\ faultsLeft = 0
    /\ callsLeft = 0
    /\ returned = NoRet
    /\ logged = {}
    /\ last = [n \in Names |-> Unknown]
    /\ fresh = [g \in Goroutines |-> {}]

\* a command starts: NewProvider, which for a provider of type local-file is
\* newLocalFile; an error ends the command
NewProvider ==
    /\ world # NoWorld
    /\ cliOut.stage # "built"
    /\ \E c \in [cmd : {"WriteSecret"}, key : CliKeys, value : Values]
               \cup [cmd : {"FetchSecret"}, key : CliKeys, value : {""}]
               \cup [cmd : {"CollectEnvWithMetadata", "List"}, key : {<<>>}, value : {""}]
               \cup [cmd : {"DeleteSecret"}, key : CliKeys, value : {""}] :
          LET r == newLocalFile(world.envCfg, world.providerCfg, world)
          IN  cliOut' = [cmd |-> c.cmd, stage |-> IF r.err = "" THEN "built" ELSE "done",
                         key |-> c.key, value |-> c.value, p |-> r.p, err |-> r.err,
                         got |-> "", records |-> EmptyMap]
    /\ UNCHANGED <<store, world>>
    /\ UNCHANGED <<calls, aside>>

\* faulty variant of WriteSecret: the key goes to Set as it is
WriteSecretNoPrefix ==
    /\ cliOut.stage = "built" /\ cliOut.cmd = "WriteSecret"
    /\ \E nonce \in Nonces :
          LET r == Set(cliOut.p, store, cliOut.key, cliOut.value, nonce)
          IN  /\ store' = r.store
              /\ cliOut' = [cliOut EXCEPT !.stage = "done", !.err = r.err]
    /\ UNCHANGED world
    /\ UNCHANGED <<calls, aside>>

WriteSecret ==
    /\ cliOut.stage = "built" /\ cliOut.cmd = "WriteSecret"
    /\ \E nonce \in Nonces :
          LET r == Set(cliOut.p, store, ApplyPrefix(world.envCfg, cliOut.key),
                       cliOut.value, nonce)
          IN  /\ store' = r.store
              /\ cliOut' = [cliOut EXCEPT !.stage = "done", !.err = r.err]
    /\ UNCHANGED world
    /\ UNCHANGED <<calls, aside>>

FetchSecret ==
    /\ cliOut.stage = "built" /\ cliOut.cmd = "FetchSecret"
    /\ LET r == Get(cliOut.p, store, ApplyPrefix(world.envCfg, cliOut.key))
       IN  cliOut' = [cliOut EXCEPT !.stage = "done", !.err = r.err, !.got = r.value]
    /\ UNCHANGED <<store, world>>
    /\ UNCHANGED <<calls, aside>>

\* CollectEnvWithMetadata, on the provider NewProvider gave and on one that
\* has the extended capability as well
CollectEnvWithMetadata ==
    /\ cliOut.stage = "built" /\ cliOut.cmd = "CollectEnvWithMetadata"
    /\ \E p \in {cliOut.p, [cliOut.p EXCEPT !.lister = TRUE]} :
       \E r \in ListOrDescribe(p, store, ResolvedPrefix(world.envCfg)) :
          cliOut' = [cliOut EXCEPT !.stage = "done", !.p = p, !.err = r.err,
                                   !.records = r.records]
    /\ UNCHANGED <<store, world>>
    /\ UNCHANGED <<calls, aside>>

\* List called on the provider as it is, with no filter or with one: the map
\* it returns is kept in records, the filter in key
ListCall ==
    /\ cliOut.stage = "built" /\ cliOut.cmd = "List"
    /\ \E prefix \in {<<>>, <<"p">>} :
       \E r \in List(cliOut.p, store, prefix) :
          cliOut' = [cliOut EXCEPT !.stage = "done", !.key = prefix, !.err = r.err,
                                   !.records = r.out]
    /\ UNCHANGED <<store, world>>
    /\ UNCHANGED <<calls, aside>>

\* faulty variant of DeleteSecret: without a Delete of the provider the key is
\* set to the empty value
DeleteSecretWritesEmpty ==
    /\ cliOut.stage = "built" /\ cliOut.cmd = "DeleteSecret"
    /\ \E nonce \in Nonces :
          LET r == Set(cliOut.p, store, ApplyPrefix(world.envCfg, cliOut.key), "", nonce)
          IN  /\ store' = r.store
              /\ cliOut' = [cliOut EXCEPT !.stage = "done", !.err = r.err]
    /\ UNCHANGED world
    /\ UNCHANGED <<calls, aside>>

\* envmap set --delete: DeleteSecret, after NewProvider. The provider is a
\* localFile, which has Get, List and Set and no Delete: the type test for a
\* Delete method fails, and the error is returned
DeleteSecret ==
    /\ cliOut.stage = "built" /\ cliOut.cmd = "DeleteSecret"
    /\ cliOut' = [cliOut EXCEPT !.stage = "done", !.err = "provider does not support delete"]
    /\ UNCHANGED <<store, world>>
    /\ UNCHANGED <<calls, aside>>

\* the stores a command can find: none, and one that holds an entry written for
\* an environment without prefix, under the key of either key source
InitCli ==
    /\ store \in
          {Absent,
           encrypt(MarshalIndent([n \in {NameB} |-> "v1"]), deriveKey(KeyEnvValue), "n1"),
           encrypt(MarshalIndent([n \in {NameB} |-> "v1"]),
                   deriveKey(Bytes(MinKeyLen, "f")), "n1")}
    /\ world \in Worlds
    /\ cliOut = [cmd |-> None, stage |-> None, key |-> <<>>, value |-> "", p |-> NoProvider,
                 err |-> "", got |-> "", records |-> EmptyMap]
    /\ pipe = NotUsed
    /\ fs = NotUsed
    /\ registry = NotUsed
    /\ NoCalls

Cli ==
    InitCli /\ [][NewProvider \/ WriteSecret \/ FetchSecret \/ CollectEnvWithMetadata
                    \/ ListCall \/ DeleteSecret]_vars

(* ================= the storage format, unit by unit ==================== *)
\* A text is a sequence of characters; a ciphertext is a sequence of units, one
\* for every byte of the nonce, of the sealed text and of the tag.

(* ------------------------------ JSON ----------------------------------- *)
\* faulty variant of jsonEscape: every character is written as it is
jsonEscapeNone(c) == <<c>>

\* the encoder's string escapes: quote and backslash get a backslash, '<' is
\* written as the escape u003c; the other characters in use stand for themselves
jsonEscape(c) ==
    CASE c = "\"" -> <<"\\", "\"">>
      [] c = "\\" -> <<"\\", "\\">>
      [] c = "<" -> <<"\\", "u", "0", "0", "3", "c">>
      [] OTHER -> <<c>>

RECURSIVE jsonQuoted(_)
jsonQuoted(str) ==
    IF str = <<>> THEN <<>> ELSE jsonEscape(Head(str)) \o jsonQuoted(Tail(str))

\* the members "name": "value" of the object, one on a line
RECURSIVE jsonMembers(_)
jsonMembers(pairs) ==
    IF pairs = <<>> THEN <<>>
    ELSE <<"\n", "\"">> \o jsonQuoted(Head(pairs)[1]) \o <<"\"", ":", " ", "\"">>
         \o jsonQuoted(Head(pairs)[2]) \o <<"\"">>
         \o (IF Len(pairs) > 1 THEN <<",">> ELSE <<"\n">>)
         \o jsonMembers(Tail(pairs))

\* json.MarshalIndent(entries, "", "  ") as text: the members in sorted key
\* order (a line's indentation is part of its newline here)
MarshalText(m) == <<"{">> \o jsonMembers(SortedPairs(m, DOMAIN m)) \o <<"}">>

\* the decoder: what a scan gives is ok or not, the value, and the place of
\* the next character
Scanned(ok, v, next) == [ok |-> ok, v |-> v, next |-> next]

RECURSIVE SkipSpace(_, _)
SkipSpace(t, i) ==
    IF i <= Len(t) /\ t[i] \in {" ", "\n"} THEN SkipSpace(t, i + 1) ELSE i

\* the characters of a string up to its closing quote, from place i on
RECURSIVE ScanChars(_, _, _)
ScanChars(t, i, acc) ==
    IF i > Len(t) THEN Scanned(FALSE, acc, i)
    ELSE IF t[i] = "\"" THEN Scanned(TRUE, acc, i + 1)
    ELSE IF t[i] = "\n" THEN Scanned(FALSE, acc, i)
    ELSE IF t[i] # "\\" THEN ScanChars(t, i + 1, Append(acc, t[i]))
    ELSE IF i + 1 > Len(t) THEN Scanned(FALSE, acc, i)
    ELSE IF t[i + 1] \in {"\"", "\\"} THEN ScanChars(t, i + 2, Append(acc, t[i + 1]))
    ELSE IF t[i + 1] = "u" /\ i + 5 <= Len(t)
    THEN ScanChars(t, i + 6,
                   Append(acc, IF SubSeq(t, i + 2, i + 5) = <<"0", "0", "3", "c">>
                               THEN "<" ELSE "?"))
    ELSE Scanned(FALSE, acc, i)

ScanString(t, i) ==
    IF i <= Len(t) /\ t[i] = "\"" THEN ScanChars(t, i + 1, <<>>)
    ELSE Scanned(FALSE, <<>>, i)

\* the members from place i on, up to the closing brace; a name that comes
\* again replaces the value it had
RECURSIVE ScanMembers(_, _, _)
ScanMembers(t, i, acc) ==
    LET name == ScanString(t, i)
        colon == SkipSpace(t, name.next)
        value == ScanString(t, SkipSpace(t, colon + 1))
        after == SkipSpace(t, value.next)
        D == DOMAIN acc \cup {name.v}
        more == [n \in D |-> IF n = name.v THEN value.v ELSE acc[n]]
    IN  IF ~name.ok \/ colon > Len(t) \/ t[colon] # ":" THEN Scanned(FALSE, acc, i)
        ELSE IF ~value.ok \/ after > Len(t) THEN Scanned(FALSE, acc, i)
        ELSE IF t[after] = "}" THEN Scanned(TRUE, more, after + 1)
        ELSE IF t[after] = "," THEN ScanMembers(t, SkipSpace(t, after + 1), more)
        ELSE Scanned(FALSE, acc, i)

\* json.Unmarshal(plaintext, &entries) on text: one object of string members,
\* and nothing after it
UnmarshalText(t) ==
    LET open == SkipSpace(t, 1)
        first == SkipSpace(t, open + 1)
        obj == IF open > Len(t) \/ t[open] # "{" THEN Scanned(FALSE, EmptyMap, open)
               ELSE IF first <= Len(t) /\ t[first] = "}" THEN Scanned(TRUE, EmptyMap, first + 1)
               ELSE ScanMembers(t, first, EmptyMap)
    IN  [ok |-> obj.ok /\ SkipSpace(t, obj.next) > Len(t), entries |-> obj.v]

(* --------------------------- AES-256-GCM ------------------------------- *)
\* key := make([]byte, 32)
KeySize == 32
\* gcm.NonceSize()
NonceSize == 12
\* the length of the tag gcm.Seal appends
TagSize == 16

\* faulty variant of DeriveKey: a salt that differs from call to call goes in
DeriveKeySalted(material) ==
    [i \in 1..KeySize |-> [u |-> "hkdf", m |-> <<material, pipe.stage>>, i |-> i]]

\* deriveKey on bytes: the first KeySize bytes HKDF-SHA256 gives for the
\* material, without salt and with the fixed info string
DeriveKey(material) == [i \in 1..KeySize |-> [u |-> "hkdf", m |-> material, i |-> i]]

\* aes.NewCipher takes keys of 16, 24 and 32 bytes
NewCipherOK(key) == Len(key) \in {16, 24, 32}

\* the nonce io.ReadFull(rand.Reader, nonce) fills in, for the value r the
\* random source gives
NonceOf(r) == [i \in 1..NonceSize |-> [u |-> "rand", r |-> r, i |-> i]]

\* gcm.Seal: the sealed text, byte for byte a function of key, nonce, place and
\* plaintext byte, and the tag, a function of key, nonce and sealed text that
\* nothing else gives
\* is this byte what key and nonce make of some plaintext byte at place i
IsSealed(unit, key, nonce, i) ==
    unit.u = "ct" /\ unit.key = key /\ unit.nonce = nonce /\ unit.i = i
\* the tag takes of each byte of the sealed text one value per byte value
TagOf(key, nonce, body) ==
    LET Digest(i) == IF IsSealed(body[i], key, nonce, i) THEN [p |-> body[i].p]
                     ELSE [other |-> body[i]]
    IN  [j \in 1..TagSize |->
            [u |-> "tag", key |-> key, nonce |-> nonce, j |-> j,
             body |-> [i \in 1..Len(body) |-> Digest(i)]]]
Seal(key, nonce, plaintext) ==
    LET body == [i \in 1..Len(plaintext) |->
                    [u |-> "ct", key |-> key, nonce |-> nonce, i |-> i, p |-> plaintext[i]]]
    IN  body \o TagOf(key, nonce, body)

Opened(err, plaintext) == [err |-> err, plaintext |-> plaintext]

\* faulty variant of Open: the tag is cut off and not looked at
OpenUnchecked(key, nonce, data) ==
    LET n == Len(data) - TagSize
        body == SubSeq(data, 1, n)
        unsealed(i) == IF IsSealed(body[i], key, nonce, i) THEN body[i].p ELSE "?"
    IN  IF n < 0 THEN Opened("message authentication failed", <<>>)
        ELSE Opened("", [i \in 1..n |-> unsealed(i)])

\* gcm.Open: the tag is checked before anything is given out
Open(key, nonce, data) ==
    LET n == Len(data) - TagSize
        body == SubSeq(data, 1, n)
        unsealed(i) == IF IsSealed(body[i], key, nonce, i) THEN body[i].p ELSE "?"
    IN  IF n < 0 THEN Opened("message authentication failed", <<>>)
        ELSE IF SubSeq(data, n + 1, Len(data)) # TagOf(key, nonce, body)
        THEN Opened("message authentication failed", <<>>)
        ELSE Opened("", [i \in 1..n |-> unsealed(i)])

\* faulty variant of Encrypt: the nonce is left as make() gave it, all zero
EncryptZeroNonce(plaintext, key, nonce) ==
    IF ~NewCipherOK(key) THEN [err |-> "invalid key size", ciphertext |-> <<>>]
    ELSE [err |-> "", ciphertext |-> NonceOf("zero") \o Seal(key, NonceOf("zero"), plaintext)]

\* faulty variant of Encrypt: the nonce is used and not written out
EncryptNoNonceOut(plaintext, key, nonce) ==
    IF ~NewCipherOK(key) THEN [err |-> "invalid key size", ciphertext |-> <<>>]
    ELSE [err |-> "", ciphertext |-> Seal(key, nonce, plaintext)]

\* encrypt on bytes, with the nonce the random source gave
Encrypt(plaintext, key, nonce) ==
    IF ~NewCipherOK(key) THEN [err |-> "invalid key size", ciphertext |-> <<>>]
    ELSE [err |-> "", ciphertext |-> nonce \o Seal(key, nonce, plaintext)]

\* faulty variant of Decrypt: without the length test
DecryptNoLenTest(ct, key) ==
    LET size == IF Len(ct) < NonceSize THEN Len(ct) ELSE NonceSize
    IN  IF ~NewCipherOK(key) THEN Opened("invalid key size", <<>>)
        ELSE Open(key, SubSeq(ct, 1, size), SubSeq(ct, size + 1, Len(ct)))

\* decrypt on bytes
Decrypt(ct, key) ==
    IF ~NewCipherOK(key) THEN Opened("invalid key size", <<>>)
    ELSE IF Len(ct) < NonceSize THEN Opened("ciphertext too short", <<>>)
    ELSE Open(key, SubSeq(ct, 1, NonceSize),
              SubSeq(ct, NonceSize + 1, Len(ct)))

(* ------------------ a mapping written and read back -------------------- *)
\* readAllUnlocked as to the bytes of the file
ReadAll(raw, key) ==
    LET d == Decrypt(raw, key)
        j == UnmarshalText(d.plaintext)
    IN  IF raw = <<>> THEN [err |-> "", entries |-> EmptyMap]
        ELSE IF d.err # "" THEN [err |-> "decrypt local store", entries |-> EmptyMap]
        ELSE IF ~j.ok THEN [err |-> "parse local store", entries |-> EmptyMap]
        ELSE [err |-> "", entries |-> j.entries]

\* the key materials, and what the random source gives
PipeMaterials == {<<"a">>, <<"b">>}
Rands == {"r1", "r2"}

NoPipe ==
    [stage |-> "start", isMap |-> FALSE, m |-> EmptyMap, plaintext |-> <<>>,
     material |-> <<>>, r |-> "", ct |-> <<>>, first |-> <<>>, how |-> "none",
     reader |-> <<>>, out |-> Opened("", <<>>), read |-> [err |-> "", entries |-> EmptyMap]]

\* plaintext is encrypted under the key of the material, with a nonce of the
\* random source
Sealing(isMap, m, plaintext, material, r) ==
    [NoPipe EXCEPT !.stage = "written", !.isMap = isMap, !.m = m,
                   !.plaintext = plaintext, !.material = material, !.r = r,
                   !.ct = Encrypt(plaintext, DeriveKey(material), NonceOf(r)).ciphertext]

\* writeAllUnlocked(m), up to the bytes of the file, for the mappings of names
\* and values with a quote, a backslash and a '<' among them
PipeWrite ==
    /\ pipe.stage = "start"
    /\ \E m \in UNION {[D -> {<<>>, <<"v">>, <<"\\", "<">>}] :
                         D \in SUBSET {<<"A">>, <<"B", "\"">>}},
          material \in PipeMaterials, r \in Rands :
          pipe' = Sealing(TRUE, m, MarshalText(m), material, r)
    /\ UNCHANGED <<store, cli, calls, fs, registry>>

\* encrypt of a text that is no mapping
PipeEncrypt ==
    /\ pipe.stage = "start"
    /\ \E t \in {<<>>, <<"v">>}, material \in PipeMaterials, r \in Rands :
          pipe' = Sealing(FALSE, EmptyMap, t, material, r)
    /\ UNCHANGED <<store, cli, calls, fs, registry>>

\* the same plaintext is encrypted once more under the same key: the random
\* source, 96 bits a draw, does not give the nonce it gave before
PipeAgain ==
    /\ pipe.stage = "written" /\ pipe.how = "none" /\ pipe.first = <<>>
    /\ \E r \in Rands \ {pipe.r} :
          pipe' = [pipe EXCEPT !.first = pipe.ct, !.r = r,
                               !.ct = Encrypt(pipe.plaintext, DeriveKey(pipe.material),
                                              NonceOf(r)).ciphertext]
    /\ UNCHANGED <<store, cli, calls, fs, registry>>

\* one byte of the file is changed
PipeFlip ==
    /\ pipe.stage = "written" /\ pipe.how = "none"
    /\ \E i \in 1..Len(pipe.ct) :
          pipe' = [pipe EXCEPT !.how = "flip",
                               !.ct = [pipe.ct EXCEPT ![i] = [u |-> "flip", was |-> pipe.ct[i]]]]
    /\ UNCHANGED <<store, cli, calls, fs, registry>>

\* the file is cut to a proper prefix
PipeCut ==
    /\ pipe.stage = "written" /\ pipe.how = "none"
    /\ \E n \in 0..(Len(pipe.ct) - 1) :
          pipe' = [pipe EXCEPT !.how = "cut", !.ct = SubSeq(pipe.ct, 1, n)]
    /\ UNCHANGED <<store, cli, calls, fs, registry>>

\* a provider built from some material decrypts and reads the file
PipeRead ==
    /\ pipe.stage = "written"
    /\ \E material \in PipeMaterials :
          pipe' = [pipe EXCEPT !.stage = "read", !.reader = material,
                               !.out = Decrypt(pipe.ct, DeriveKey(material)),
                               !.read = ReadAll(pipe.ct, DeriveKey(material))]
    /\ UNCHANGED <<store, cli, calls, fs, registry>>

InitFormat ==
    /\ pipe = NoPipe
    /\ store = Absent
    /\ world = NoWorld
    /\ cliOut = NoWorld
    /\ fs = NotUsed
    /\ registry = NotUsed
    /\ NoCalls

Format ==
    InitFormat /\ [][PipeWrite \/ PipeEncrypt \/ PipeAgain \/ PipeFlip \/ PipeCut \/ PipeRead]_vars

(* --------------------------- file modes -------------------------------- *)
\* os.MkdirAll(dir, 0o700)
DirPerm == 448
\* tmp.Chmod(0o600), os.WriteFile(path, key, 0o600)
FilePerm == 384

RECURSIVE BitAnd(_, _)
BitAnd(a, b) ==
    IF a = 0 \/ b = 0 THEN 0
    ELSE (a % 2) * (b % 2) + 2 * BitAnd(a \div 2, b \div 2)

\* the mode a file or directory is created with under the process's umask
Masked(perm, umask) == perm - BitAnd(perm, umask)

\* a file or directory: its mode, the number of bytes in it and what they are
NoFile == [exists |-> FALSE, mode |-> 0, len |-> 0, of |-> "none"]
File(mode, len, of) == [exists |-> TRUE, mode |-> mode, len |-> len, of |-> of]

\* os.MkdirAll: a directory in place is left as it is
osMkdirAll(d, perm, umask) == IF d.exists THEN d ELSE File(Masked(perm, umask), 0, "dir")

\* faulty variant of Rename: the file in place keeps its mode
osRenameKeepsMode(from, to) == IF to.exists THEN [from EXCEPT !.mode = to.mode] ELSE from

\* os.Rename: the file renamed takes the place of the one in place, with the
\* mode it has
osRename(from, to) == from

NoStep == [op |-> None, pc |-> "idle", of |-> "none", madeDir |-> FALSE,
           before |-> NoFile, err |-> ""]

\* writeAllUnlocked, from the directory on, with the ciphertext it has to
\* write: os.MkdirAll(dir, 0o700)
WriteMkdirAll ==
    /\ fs.step.pc = "idle"
    /\ \E ct \in {"c1", "c2"} :
          fs' = [fs EXCEPT !.storeDir = osMkdirAll(fs.storeDir, DirPerm, fs.umask),
                           !.step = [op |-> "writeAllUnlocked", pc |-> "CreateTemp",
                                     of |-> ct, madeDir |-> ~fs.storeDir.exists,
                                     before |-> fs.storeFile, err |-> ""]]
    /\ UNCHANGED <<store, cli, calls, pipe, registry>>

\* os.CreateTemp: a new file of mode 0600 less the umask, nothing in it
WriteCreateTemp ==
    /\ fs.step.op = "writeAllUnlocked" /\ fs.step.pc = "CreateTemp"
    /\ fs' = [fs EXCEPT !.tmpFile = File(Masked(FilePerm, fs.umask), 0, ""),
                        !.step.pc = "Chmod"]
    /\ UNCHANGED <<store, cli, calls, pipe, registry>>

WriteChmod ==
    /\ fs.step.op = "writeAllUnlocked" /\ fs.step.pc = "Chmod"
    /\ fs' = [fs EXCEPT !.tmpFile.mode = FilePerm, !.step.pc = "Write"]
    /\ UNCHANGED <<store, cli, calls, pipe, registry>>

\* tmp.Write, tmp.Sync, tmp.Close
WriteWrite ==
    /\ fs.step.op = "writeAllUnlocked" /\ fs.step.pc = "Write"
    /\ fs' = [fs EXCEPT !.tmpFile.len = NonceSize + TagSize, !.tmpFile.of = fs.step.of,
                        !.step.pc = "Rename"]
    /\ UNCHANGED <<store, cli, calls, pipe, registry>>

WriteRename ==
    /\ fs.step.op = "writeAllUnlocked" /\ fs.step.pc = "Rename"
    /\ fs' = [fs EXCEPT !.storeFile = osRename(fs.tmpFile, fs.storeFile),
                        !.tmpFile = NoFile,
                        !.step.pc = "idle"]
    /\ UNCHANGED <<store, cli, calls, pipe, registry>>

\* envmap keygen: a key file in place ends the command
KeygenCmd ==
    /\ fs.step.pc = "idle"
    /\ fs' = [fs EXCEPT !.step =
                IF fs.keyFile.exists
                THEN [NoStep EXCEPT !.op = "keygen", !.before = fs.keyFile,
                                    !.err = "key file already exists"]
                ELSE [NoStep EXCEPT !.op = "GenerateKeyFile", !.pc = "MkdirAll",
                                    !.of = "rand", !.before = fs.keyFile]]
    /\ UNCHANGED <<store, cli, calls, pipe, registry>>

\* GenerateKeyFile called on a path as it is: the 32 bytes rand.Read gives
GenerateKeyFile ==
    /\ fs.step.pc = "idle"
    /\ fs' = [fs EXCEPT !.step = [NoStep EXCEPT !.op = "GenerateKeyFile", !.pc = "MkdirAll",
                                                !.of = "rand", !.before = fs.keyFile]]
    /\ UNCHANGED <<store, cli, calls, pipe, registry>>

KeyMkdirAll ==
    /\ fs.step.op = "GenerateKeyFile" /\ fs.step.pc = "MkdirAll"
    /\ fs' = [fs EXCEPT !.keyDir = osMkdirAll(fs.keyDir, DirPerm, fs.umask),
                        !.step.madeDir = ~fs.keyDir.exists,
                        !.step.pc = "WriteFile"]
    /\ UNCHANGED <<store, cli, calls, pipe, registry>>

\* os.WriteFile: O_WRONLY|O_CREATE|O_TRUNC; perm is used when the file is
\* created, a file in place is emptied and keeps its mode
KeyWriteFile ==
    /\ fs.step.op = "GenerateKeyFile" /\ fs.step.pc = "WriteFile"
    /\ fs' = [fs EXCEPT !.keyFile =
                File(IF fs.keyFile.exists THEN fs.keyFile.mode
                     ELSE Masked(FilePerm, fs.umask),
                     KeySize, fs.step.of),
                        !.step.pc = "idle"]
    /\ UNCHANGED <<store, cli, calls, pipe, registry>>

\* the process runs under umask 022, 002 or 077 (none takes a bit from the
\* owner); a directory in place has mode 0700 or 0755, a store or key file in
\* place mode 0600, 0644 or 0666; mode 0 stands for what is not there
InitFiles ==
    /\ \E u \in {18, 2, 63}, sd, kd \in {0, DirPerm, 493}, sf, kf \in {0, FilePerm, 420, 438} :
          LET Found(mode, len, of) == IF mode = 0 THEN NoFile ELSE File(mode, len, of)
          IN  /\ sf # 0 => sd # 0
              /\ kf # 0 => kd # 0
              /\ fs = [umask |-> u, step |-> NoStep, tmpFile |-> NoFile,
                       storeDir |-> Found(sd, 0, "dir"),
                       storeFile |-> Found(sf, NonceSize + TagSize, "old"),
                       keyDir |-> Found(kd, 0, "dir"),
                       keyFile |-> Found(kf, KeySize, "old")]
    /\ store = Absent
    /\ world = NoWorld
    /\ cliOut = NoWorld
    /\ pipe = NotUsed
    /\ registry = NotUsed
    /\ NoCalls

Files ==
    InitFiles /\ [][WriteMkdirAll \/ WriteCreateTemp \/ WriteChmod \/ WriteWrite \/ WriteRename
                     \/ KeygenCmd \/ GenerateKeyFile \/ KeyMkdirAll \/ KeyWriteFile]_vars

(* ------------------------ provider registry ---------------------------- *)
\* Info: the type, the description and the factory of a provider; a factory
\* is nil or one of two functions

\* faulty variant of register: a type already there is registered again
registerAgain(providers, info) ==
    IF info.Type = "" THEN [panic |-> "provider type cannot be empty", providers |-> providers]
    ELSE IF info.Factory = "nil"
    THEN [panic |-> "provider factory cannot be nil", providers |-> providers]
    ELSE [panic |-> "",
          providers |-> [t \in DOMAIN providers \cup {info.Type} |->
                           IF t = info.Type THEN info ELSE providers[t]]]

\* Register on the map of the registry: the panic, if any, and the map after
register(providers, info) ==
    IF info.Type = "" THEN [panic |-> "provider type cannot be empty", providers |-> providers]
    ELSE IF info.Factory = "nil"
    THEN [panic |-> "provider factory cannot be nil", providers |-> providers]
    ELSE IF info.Type \in DOMAIN providers
    THEN [panic |-> "provider type already registered", providers |-> providers]
    ELSE [panic |-> "",
          providers |-> [t \in DOMAIN providers \cup {info.Type} |->
                           IF t = info.Type THEN info ELSE providers[t]]]

\* ListTypes on the map of the registry: the keys, in an order of the map's
\* choosing
ListTypes(providers) ==
    {types \in UNION {[1..n -> DOMAIN providers] : n \in {Cardinality(DOMAIN providers)}} :
        \A i, j \in DOMAIN types : i # j => types[i] # types[j]}

NoRegistryCall ==
    [op |-> None, arg |-> "", info |-> [Type |-> "", Description |-> "", Factory |-> "nil"],
     panic |-> "", ok |-> FALSE, types |-> <<>>]

Register ==
    /\ registry # NotUsed
    /\ \E info \in [Type : {"", "aws-ssm", "local-file", "vault"}, Description : {"d1", "d2"},
                    Factory : {"nil", "f1", "f2"}] :
          LET r == register(registry.providers, info)
          IN  registry' = [providers |-> r.providers,
                           call |-> [NoRegistryCall EXCEPT !.op = "Register", !.arg = info.Type,
                                                           !.info = info, !.panic = r.panic]]
    /\ UNCHANGED <<store, cli, calls, pipe, fs>>

GetInfo ==
    /\ registry # NotUsed
    /\ \E t \in {"", "aws-ssm", "local-file", "vault"} :
          LET r == IF t \in DOMAIN registry.providers
                   THEN [info |-> registry.providers[t], ok |-> TRUE]
                   ELSE [info |-> NoRegistryCall.info, ok |-> FALSE]
          IN  registry' = [registry EXCEPT
                             !.call = [NoRegistryCall EXCEPT !.op = "Get", !.arg = t,
                                                             !.info = r.info, !.ok = r.ok]]
    /\ UNCHANGED <<store, cli, calls, pipe, fs>>

ListTypesCall ==
    /\ registry # NotUsed
    /\ \E types \in ListTypes(registry.providers) :
          registry' = [registry EXCEPT
                         !.call = [NoRegistryCall EXCEPT !.op = "ListTypes", !.types = types]]
    /\ UNCHANGED <<store, cli, calls, pipe, fs>>

InitRegistry ==
    /\ registry = [providers |-> EmptyMap, call |-> NoRegistryCall]
    /\ store = Absent
    /\ world = NoWorld
    /\ cliOut = NoWorld
    /\ pipe = NotUsed
    /\ fs = NotUsed
    /\ NoCalls

Registry == InitRegistry /\ [][Register \/ GetInfo \/ ListTypesCall]_vars

(* ============================== claims ================================= *)
StoreEntries == ReadEntries(store)
StoreReadable == ReadErr(store) = ""

\* C1: mutual exclusion. At most one body (the function passed to
\* withExclusiveLock: read store .. optional write store) is executing at any
\* time, whatever mix of shared instances, separate instances and separate
\* processes works on the store path.
C1_MutualExclusion == Cardinality({g \in Goroutines : InBody(g)}) <= 1

\* C2: no lost updates. The value a successful Set wrote for a name stays in the
\* store, whatever Sets of other names ran concurrently with it: every name
\* whose latest Set has returned success (or that was there from the start and
\* was never set) is in the store with that value.
C2_NoLostUpdates ==
    \A n \in Names :
       last[n] # Unknown => StoreReadable /\ n \in DOMAIN StoreEntries
                             /\ StoreEntries[n] = last[n]

\* g takes a step of its own from pc value a to pc value b
Steps(g, a, b) == pc[g] = a /\ pc'[g] = b
\* the steps of writeAllUnlocked with the temporary file in existence
TempPcs == {"write", "sync", "rename"}

\* C3: atomic persistence. Whatever happens (a process killed at any step of
\* writeAllUnlocked included), the store path never holds a partially written
\* blob: a kill leaves the file as it is, and the only step that changes the
\* file puts the complete new ciphertext there, which decrypts with the
\* provider's key and parses to the mapping that was written.
C3_AtomicPersistence ==
    [][/\ ~store'.cut
       /\ (\E p \in Procs : ~crashed[p] /\ crashed'[p]) => store' = store
       /\ store' # store =>
             \E g \in Goroutines :
                /\ Steps(g, "rename", "muUnlock")
                /\ store' = ciphertext[g]
                /\ store'.kind = "blob"
                /\ ReadErr(store') = ""
                /\ ReadEntries(store') = entries[g]]_vars

\* a process was killed in the middle of writing its temporary file: a partial
\* temporary file is left, the store is the complete one it was
C3_Witness ==
    \E g \in Goroutines :
       /\ pc[g] = "crashed" /\ tmp[g].cut
       /\ store = encrypt(MarshalIndent([n \in {NameA} |-> "v1"]), ProviderKey, "n1")

\* C4 as stated: when writeAllUnlocked returns an error after the temporary
\* file was created (chmod, write, sync, close or rename failed) the temporary
\* file has been removed and the store is what it was before the call; when it
\* returns success the temporary file is no longer there under its name.
C4_AsStated ==
    [][\A g \in Goroutines :
          /\ (pc[g] # "remove" /\ pc'[g] = "remove") =>
                /\ pc[g] \in TempPcs \cup {"createTemp"}
                /\ tmp'[g] # Absent
                /\ store' = store /\ ret'[g].err # ""
          /\ Steps(g, "remove", "muUnlock") =>
                store' = store /\ ret'[g] = ret[g] /\ tmp'[g] = Absent
          /\ (pc[g] \in TempPcs /\ pc'[g] = "muUnlock") =>
                pc[g] = "rename" /\ ret'[g].err = "" /\ tmp'[g] = Absent]_vars

\* C4, amended: when writeAllUnlocked returns an error after the temporary file
\* was created, the store is what it was before the call and the removal of the
\* temporary file has been attempted: the file is gone unless os.Remove itself
\* failed, which is not reported; when writeAllUnlocked returns success the
\* temporary file is no longer there under its name.
C4_Cleanup ==
    [][\A g \in Goroutines :
          /\ (pc[g] # "remove" /\ pc'[g] = "remove") =>
                /\ pc[g] \in TempPcs \cup {"createTemp"}
                /\ tmp'[g] # Absent
                /\ store' = store /\ ret'[g].err # ""
          /\ Steps(g, "remove", "muUnlock") =>
                store' = store /\ ret'[g] = ret[g] /\ tmp'[g] \in {Absent, tmp[g]}
          /\ (pc[g] \in TempPcs /\ pc'[g] = "muUnlock") =>
                pc[g] = "rename" /\ ret'[g].err = "" /\ tmp'[g] = Absent]_vars

\* the rename failed, and writeAllUnlocked has returned the error with the
\* temporary file removed and the store still there
C4_Witness ==
    \E g \in Goroutines :
       /\ pc[g] = "muUnlock" /\ ret[g].err = "rename temp file"
       /\ tmp[g] = Absent /\ store.kind = "blob"

\* C5: if acquiring the OS file lock fails, the call returns the error without
\* running its body: the store and the temporary files are untouched, the
\* mutex is not taken, no lock is held for it and no value is returned; a call
\* only goes on to the mutex with the OS lock held by its handle.
C5_LockFailure ==
    [][\A g \in Goroutines :
          /\ Steps(g, "flock", "idle") =>
                /\ returned' = Fail("acquire lock")
                /\ store' = store /\ tmp' = tmp
                /\ mu' = mu /\ osLock' = osLock /\ flockL' = flockL
          /\ Steps(g, "flock", "mu") =>
                osLock' = InstOf(g) /\ flockL'[InstOf(g)]
          /\ pc[g] = "flock" => pc'[g] \in {"flock", "mu", "idle", "crashed"}]_vars

\* the only call made so far has failed to acquire the lock
C5_Witness ==
    /\ returned = Fail("acquire lock")
    /\ callsLeft = MaxCalls - 1
    /\ \A g \in Goroutines : pc[g] = "idle"
    /\ osLock = None /\ \A i \in Instances : mu[i] = None

\* every goroutine of process p is between calls
Quiescent(p) == \A g \in Goroutines : ProcOf(g) = p => pc[g] = "idle"

\* C6 as stated: every call that acquired the lock releases the mutex and the
\* OS lock before it returns, on every path: once all calls of a process have
\* returned, the process holds neither.
C6_AsStated ==
    \A i \in Instances :
       Quiescent(ProcOfInst(i)) =>
          mu[i] = None /\ flockM[i] = None /\ ~flockL[i] /\ osLock # i

\* C6, amended: every call that acquired the lock releases the mutex before it
\* returns, on every path, and releases the OS lock unless the release itself
\* fails (which is logged): once all calls of a process have returned, the
\* process does not hold the mutex, and holds the OS lock only if one of its
\* releases failed.
C6_Released ==
    \A i \in Instances :
       Quiescent(ProcOfInst(i)) =>
          /\ mu[i] = None /\ flockM[i] = None
          /\ (flockL[i] \/ osLock = i) => (\E g \in logged : ProcOf(g) = ProcOfInst(i))

\* all the calls have been made and have returned, the last on an error path of
\* its body; nothing failed to unlock, and nothing is held
C6_Witness ==
    /\ callsLeft = 0
    /\ \A g \in Goroutines : pc[g] = "idle"
    /\ returned.err \in {"decrypt local store", "parse local store", "missing secret",
                         "read local store", "rename temp file"}
    /\ logged = {}
    /\ osLock = None
    /\ \A i \in Instances : mu[i] = None /\ ~flockL[i]

\* C7: a failure to release the OS lock never changes the result: the call
\* returns what fn returned, whether or not Unlock failed, and the release of
\* the mutex before it does not touch that value.
C7_UnlockFailureHarmless ==
    [][\A g \in Goroutines :
          /\ Steps(g, "unlock", "idle") => returned' = ret[g]
          /\ Steps(g, "muUnlock", "unlock") => ret'[g] = ret[g]]_vars

\* the only call made so far was a Get that found its value; its Unlock failed
\* and the call returned the value
C7_Witness ==
    /\ logged # {}
    /\ callsLeft = MaxCalls - 1
    /\ \A g \in Goroutines : pc[g] = "idle"
    /\ returned = Ret("", "v1", EmptyMap)

\* C8: if Set cannot read the store (it does not decrypt with the provider's
\* key, decrypts to something that does not parse, or the read fails), Set's
\* body ends there with the error: nothing is written, the store is unchanged,
\* and the call's remaining steps leave it unchanged.
C8_SetReadFailure ==
    [][\A g \in Goroutines :
          /\ (pc[g] = "read" /\ pc'[g] # "read" /\ op'[g].kind = "Set"
                /\ (ReadErr(store) # "" \/ faultsLeft' # faultsLeft)) =>
                /\ pc'[g] = "muUnlock"
                /\ ret'[g].err = (IF faultsLeft' # faultsLeft THEN "read local store"
                                  ELSE ReadErr(store))
                /\ ret'[g].err # ""
                /\ store' = store /\ tmp' = tmp
          /\ (pc[g] \in {"muUnlock", "unlock"} /\ pc'[g] # pc[g]) => store' = store]_vars

\* a Set has found a store written under another key and has ended with the
\* decryption error; the store is that store still
C8_Witness ==
    \E g \in Goroutines :
       /\ pc[g] = "muUnlock" /\ op[g].kind = "Set"
       /\ ret[g].err = "decrypt local store"
       /\ store = encrypt(MarshalIndent([n \in {NameB} |-> "v1"]), OtherKey, "n1")

\* C9: a store that does not exist or has zero length reads as the empty
\* mapping, without error: on it Get fails with not-found for every name, List
\* returns an empty map, and Set goes on to write exactly {name: value}, which
\* is what the store holds when the write has succeeded.
C9_EmptyStore ==
    [][\A g \in Goroutines :
          /\ (pc[g] = "read" /\ pc'[g] # "read"
                /\ ~(\E p \in Procs : ~crashed[p] /\ crashed'[p])
                /\ store.kind \in {"absent", "empty"} /\ faultsLeft' = faultsLeft) =>
                /\ op'[g].kind = "Get" => /\ pc'[g] = "muUnlock"
                                          /\ ret'[g] = Fail("missing secret")
                /\ op'[g].kind = "List" => /\ pc'[g] = "muUnlock"
                                           /\ ret'[g] = Ret("", "", EmptyMap)
                /\ op'[g].kind = "Set" =>
                      /\ pc'[g] = "encode"
                      /\ entries'[g] = [n \in {op'[g].name} |-> op'[g].value]
          /\ Steps(g, "rename", "muUnlock") =>
                /\ ret'[g].err = ""
                /\ ReadErr(store') = "" /\ ReadEntries(store') = entries[g]]_vars

\* a Set of a name that no initial store has was run on an absent or empty
\* store and has succeeded: the store holds that name and nothing else
C9_Witness ==
    \E g \in Goroutines :
       /\ pc[g] = "muUnlock" /\ op[g].kind = "Set" /\ op[g].name = NameB
       /\ ret[g].err = ""
       /\ StoreReadable /\ StoreEntries = [n \in {NameB} |-> op[g].value]

\* C10: read-your-writes. A Get(name) called after a Set(name, value) returned
\* success, with any Gets, Lists and Sets of other names in between (and no Set
\* of name), returns value; after a later Set(name, value2) it returns value2.
C10_ReadYourWrites ==
    [][\A g \in Goroutines :
          (pc[g] = "unlock" /\ pc'[g] = "idle" /\ op[g].kind = "Get"
             /\ op[g].name \in fresh[g])
          => returned' = Ret("", last[op[g].name], EmptyMap)]_vars

\* C13: Set changes only the entry of its name. For every other name m, the
\* entry the store holds for m when a successful Set has put its file in place
\* is the entry it held before: there with the same value, or not there; no
\* entry is removed.
C13_SetFrame ==
    [][\A g \in Goroutines :
          (Steps(g, "rename", "muUnlock") /\ ReadErr(store) = "")
          => /\ ReadErr(store') = ""
             /\ \A m \in Names \ {op[g].name} :
                   /\ m \in DOMAIN ReadEntries(store) <=> m \in DOMAIN ReadEntries(store')
                   /\ m \in DOMAIN ReadEntries(store)
                        => ReadEntries(store')[m] = ReadEntries(store)[m]]_vars

\* C14: Get of a name that has no entry in a readable store returns the
\* not-found error and an empty value; a Get that returns success returns the
\* value the store holds for that very name.
C14_GetNotFound ==
    [][\A g \in Goroutines :
          (Steps(g, "read", "muUnlock") /\ op'[g].kind = "Get"
             /\ faultsLeft' = faultsLeft)
          => LET n == op'[g].name
             IN  /\ (StoreReadable /\ n \notin DOMAIN StoreEntries)
                      => ret'[g] = Fail("missing secret")
                 /\ ret'[g].err = ""
                      => /\ StoreReadable /\ n \in DOMAIN StoreEntries
                         /\ ret'[g].value = StoreEntries[n]]_vars

\* a Get of a name has found a readable store that holds another name and not
\* this one, and has ended with the not-found error
C14_Witness ==
    \E g \in Goroutines :
       /\ pc[g] = "muUnlock" /\ op[g].kind = "Get"
       /\ ret[g] = Fail("missing secret")
       /\ StoreReadable /\ DOMAIN StoreEntries # {} /\ op[g].name \notin DOMAIN StoreEntries

(* ------------------- claims about the commands -------------------------- *)
\* the entries of the store as the provider of the command under way reads them
CliRead == readAllUnlocked(store, cliOut.p.key)
\* the command under way makes its call in this step
CliCalls(cmd) == cliOut.stage = "built" /\ cliOut.cmd = cmd /\ cliOut'.stage = "done"
\* the creation time the store file raw holds for name n, read with key: what
\* the extended capability returns for n when it neither filters nor trims
StoredCreatedAt(raw, key, n) ==
    LET p == [nil |-> FALSE, envCfg |-> [PathPrefix |-> <<>>, Prefix |-> <<>>],
              key |-> key, path |-> "store",
              lister |-> TRUE]
    IN  (CHOOSE r \in ListWithMetadata(p, raw, <<>>) : TRUE).records[n].CreatedAt

\* C11: created_at is stored. After Set(name, value) on the local provider, the
\* metadata listing (of the provider that made the Set or of a freshly
\* constructed one for the same path and key) returns for that name a record
\* with the written value and a non-zero CreatedAt. Stated for environments
\* with a path prefix, as in TestLocalFileStoresCreatedAt.
C11_CreatedAtStored ==
    [][(CliCalls("CollectEnvWithMetadata") /\ world.envCfg.PathPrefix # <<>>
          /\ CliRead.err = "")
       => \A k \in CliKeys :
             ApplyPrefix(world.envCfg, k) \in DOMAIN CliRead.entries
             => /\ cliOut'.err = ""
                /\ k \in DOMAIN cliOut'.records
                /\ cliOut'.records[k].Value = CliRead.entries[ApplyPrefix(world.envCfg, k)]
                /\ cliOut'.records[k].CreatedAt # ZeroTime]_vars

C15_PrefixIsolation ==
    [][(CliCalls("CollectEnvWithMetadata") /\ CliRead.err = "")
       => \A k \in CliKeys :
             ApplyPrefix(world.envCfg, k) \in DOMAIN CliRead.entries
             => /\ cliOut'.err = ""
                /\ k \in DOMAIN cliOut'.records
                /\ cliOut'.records[k].Value = CliRead.entries[ApplyPrefix(world.envCfg, k)]]_vars

\* C16: the configured prefix is applied exactly once on the write and read
\* paths. WriteSecret(env, key, v) on a readable store adds or overwrites the
\* entry named ApplyPrefix(envCfg, key), and nothing else; FetchSecret(env, key)
\* looks up that same name and returns the value the store holds for it.
C16_PrefixOnce ==
    [][/\ (CliCalls("WriteSecret") /\ CliRead.err = "")
          => LET n == ApplyPrefix(world.envCfg, cliOut.key)
                 after == readAllUnlocked(store', cliOut.p.key)
             IN  /\ cliOut'.err = "" /\ after.err = ""
                 /\ DOMAIN after.entries = DOMAIN CliRead.entries \cup {n}
                 /\ \A x \in DOMAIN after.entries :
                       after.entries[x] = IF x = n THEN cliOut.value ELSE CliRead.entries[x]
       /\ (CliCalls("FetchSecret") /\ CliRead.err = "")
          => LET n == ApplyPrefix(world.envCfg, cliOut.key)
             IN  IF n \in DOMAIN CliRead.entries
                 THEN cliOut'.err = "" /\ cliOut'.got = CliRead.entries[n]
                 ELSE cliOut'.err = "missing secret" /\ cliOut'.got = ""]_vars

\* in an environment with a prefix, FetchSecret has returned the value of a key
\* that the store holds under the prefixed name and not under the key itself
C16_Witness ==
    /\ cliOut.cmd = "FetchSecret" /\ cliOut.stage = "done"
    /\ cliOut.err = "" /\ cliOut.got \in Values
    /\ ApplyPrefix(world.envCfg, cliOut.key) # cliOut.key
    /\ CliRead.err = ""
    /\ ApplyPrefix(world.envCfg, cliOut.key) \in DOMAIN CliRead.entries
    /\ cliOut.key \notin DOMAIN CliRead.entries

\* C17: the metadata listing agrees with the plain listing. ListOrDescribe(p,
\* prefix) returns what p.List(prefix) returns, key for key and value for
\* value; when p does not implement MetadataLister every record has a zero
\* CreatedAt; an error of List is returned as it is, with no records.
C17_DescribeAgreesWithList ==
    [][CliCalls("CollectEnvWithMetadata")
       => /\ \E r \in List(cliOut'.p, store, ResolvedPrefix(world.envCfg)) :
                /\ cliOut'.err = r.err
                /\ DOMAIN cliOut'.records = DOMAIN r.out
                /\ \A k \in DOMAIN r.out : cliOut'.records[k].Value = r.out[k]
          /\ ~cliOut'.p.lister
                => \A k \in DOMAIN cliOut'.records : cliOut'.records[k].CreatedAt = ZeroTime
          /\ cliOut'.err # "" => cliOut'.records = EmptyMap]_vars

\* the listing of a provider without the extended capability has returned a
\* record
C17_Witness ==
    /\ cliOut.cmd = "CollectEnvWithMetadata" /\ cliOut.stage = "done"
    /\ ~cliOut.p.lister /\ cliOut.err = ""
    /\ \E k \in CliKeys : k \in DOMAIN cliOut.records /\ cliOut.records[k].Value \in Values

\* the configuration of the command's provider, and what the key file is like
CliEnc == world.providerCfg.Encryption
KeyFileOpen == world.keyFile.perm % (GroupOtherBits + 1) # 0
KeyFileShort == Len(world.keyFile.data) < MinKeyLen
\* a command has been started: cliOut.p is what NewProvider gave it, and when
\* that is no provider cliOut.err is NewProvider's error
Started == world # NoWorld /\ cliOut.cmd # None

\* C18, as stated: construction fails whenever the configured key file has a
\* group or other permission bit set, and whenever it holds fewer than 16
\* bytes.
C18_AsStated ==
    (Started /\ CliEnc.KeyFile # "" /\ world.keyFile.exists
       /\ (KeyFileOpen \/ KeyFileShort))
    => cliOut.p.nil

\* C18, amended: when no key variable is configured, so that the key file is
\* the key source, construction fails whenever the key file has a group or
\* other permission bit set and whenever it holds fewer than 16 bytes; the
\* provider's key is made of the file's bytes only when the mode has no such
\* bit and the length is at least 16, and then it is (given a path).
C18_KeyFilePolicy ==
    (Started /\ CliEnc.KeyEnv = "" /\ CliEnc.KeyFile # "" /\ world.keyFile.exists)
    => /\ KeyFileOpen
            => /\ cliOut.p.nil
               /\ world.providerCfg.Path # "" => cliOut.err = "key file is too permissive"
       /\ KeyFileShort
            => /\ cliOut.p.nil
               /\ (world.providerCfg.Path # "" /\ ~KeyFileOpen)
                    => cliOut.err = "key file is too short"
       /\ ~cliOut.p.nil
            => /\ ~KeyFileOpen /\ ~KeyFileShort
               /\ cliOut.p.key = deriveKey(world.keyFile.data)
       /\ (~KeyFileOpen /\ ~KeyFileShort /\ world.providerCfg.Path # "") => ~cliOut.p.nil

\* a command was refused for a key file of 16 bytes that its group can read
C18_Witness ==
    /\ Started /\ CliEnc.KeyEnv = "" /\ CliEnc.KeyFile # "" /\ world.keyFile.exists
    /\ KeyFileOpen /\ ~KeyFileShort
    /\ cliOut.p.nil /\ cliOut.err = "key file is too permissive"

\* C19: key source selection. A configured key variable is the key source,
\* whatever key file is configured (and an empty one is an error, the file is
\* not fallen back on); otherwise a key file is required and checked; with
\* neither configured, construction fails with the missing-key-source error. A
\* provider that is constructed has the key of one of the two sources.
C19_KeySource ==
    (Started /\ world.providerCfg.Path # "" /\ ~CliEnc.nil)
    => /\ CliEnc.KeyEnv # ""
            => IF world.getenv # <<>>
               THEN ~cliOut.p.nil /\ cliOut.p.key = deriveKey(world.getenv)
               ELSE cliOut.p.nil /\ cliOut.err = "key env var is empty or not set"
       /\ (CliEnc.KeyEnv = "" /\ CliEnc.KeyFile # "")
            => /\ ~cliOut.p.nil <=> (world.keyFile.exists /\ ~KeyFileOpen /\ ~KeyFileShort)
               /\ ~cliOut.p.nil => cliOut.p.key = deriveKey(world.keyFile.data)
       /\ (CliEnc.KeyEnv = "" /\ CliEnc.KeyFile = "")
            => cliOut.p.nil /\ cliOut.err = "no key source provided"

\* with a key variable and a good key file both there, a provider was built
\* with the key of the variable
C19_Witness ==
    /\ Started /\ ~CliEnc.nil /\ CliEnc.KeyEnv # "" /\ CliEnc.KeyFile # ""
    /\ world.getenv # <<>>
    /\ world.keyFile.exists /\ ~KeyFileOpen /\ ~KeyFileShort
    /\ ~cliOut.p.nil /\ cliOut.p.key = deriveKey(world.getenv)
    /\ cliOut.p.key # deriveKey(world.keyFile.data)

\* C20: construction with a missing path or a missing encryption configuration
\* fails with an error and gives no provider; construction, successful or not,
\* leaves the store file as it is.
C20_Construction ==
    [][(world # NoWorld /\ cliOut.stage # "built")
       => /\ store' = store
          /\ (world.providerCfg.Path = "" \/ CliEnc.nil)
               => /\ cliOut'.p.nil /\ cliOut'.stage = "done"
                  /\ cliOut'.err = IF world.providerCfg.Path = ""
                                   THEN "local-file provider missing path"
                                   ELSE "local-file provider requires encryption configuration"]_vars

\* a command for a provider without path was refused, with a store file there
C20_Witness ==
    /\ Started /\ world.providerCfg.Path = ""
    /\ cliOut.p.nil /\ cliOut.err = "local-file provider missing path"
    /\ store # Absent

(* ----------------- claims about the storage format ---------------------- *)
\* the file is read, as it was written, with the key of the material it was
\* written with
ReadBack == pipe.stage = "read" /\ pipe.how = "none" /\ pipe.reader = pipe.material

\* C21: encryption round trip. For every 32-byte key and every plaintext, the
\* empty one included, decrypt of what encrypt gave, under the same key,
\* succeeds and returns the plaintext.
C21_RoundTrip ==
    ReadBack => /\ Len(DeriveKey(pipe.material)) = KeySize
                /\ pipe.out = Opened("", pipe.plaintext)

\* the empty plaintext has come back from a ciphertext of nonce and tag
C21_Witness ==
    /\ ReadBack /\ pipe.plaintext = <<>>
    /\ Len(pipe.ct) = NonceSize + TagSize
    /\ pipe.out = Opened("", <<>>)

\* C22: wrong key and tampering are rejected. decrypt under another key than
\* the one of encrypt returns an error and no plaintext, and so does decrypt
\* of a ciphertext one byte of which (nonce, sealed text or tag) was changed.
C22_Rejection ==
    (pipe.stage = "read" /\ pipe.how \in {"none", "flip"}
       /\ (pipe.reader # pipe.material \/ pipe.how = "flip"))
    => pipe.out = Opened("message authentication failed", <<>>)

\* one byte of the sealed text of a mapping was changed, and decrypt under the
\* right key has refused it
C22_Witness ==
    /\ pipe.stage = "read" /\ pipe.how = "flip" /\ pipe.reader = pipe.material
    /\ pipe.isMap /\ pipe.m # EmptyMap
    /\ pipe.ct[NonceSize + 1].u = "flip"
    /\ pipe.out.err = "message authentication failed"

\* C23: truncation is rejected. decrypt of an input shorter than the nonce
\* returns the ciphertext-too-short error; decrypt of any proper prefix of a
\* ciphertext, of whatever length, returns an error and no plaintext.
C23_Truncation ==
    (pipe.stage = "read" /\ pipe.how = "cut")
    => /\ pipe.out.err # "" /\ pipe.out.plaintext = <<>>
       /\ Len(pipe.ct) < NonceSize => pipe.out.err = "ciphertext too short"
       /\ Len(pipe.ct) >= NonceSize => pipe.out.err = "message authentication failed"

\* a prefix shorter than the nonce was refused as too short
C23_Witness ==
    /\ pipe.stage = "read" /\ pipe.how = "cut" /\ pipe.reader = pipe.material
    /\ Len(pipe.ct) = NonceSize - 1
    /\ pipe.out.err = "ciphertext too short"

\* C24: encrypt is not deterministic. Two calls with the same plaintext and
\* key give different ciphertexts, each with the nonce drawn for it in front;
\* two writes of one mapping give different file bytes.
C24_FreshNonce ==
    (pipe.stage = "written" /\ pipe.how = "none")
    => /\ SubSeq(pipe.ct, 1, NonceSize) = NonceOf(pipe.r)
       /\ pipe.first # <<>>
            => /\ pipe.ct # pipe.first
               /\ SubSeq(pipe.ct, 1, NonceSize) # SubSeq(pipe.first, 1, NonceSize)
               /\ Len(pipe.ct) = Len(pipe.first)

\* a mapping was written twice
C24_Witness ==
    /\ pipe.stage = "written" /\ pipe.how = "none" /\ pipe.isMap /\ pipe.m # EmptyMap
    /\ pipe.first # <<>> /\ pipe.ct # pipe.first

\* C25: key derivation is a function of the material with keys of 32 bytes.
\* The key a later provider derives from the same material decrypts what the
\* earlier one wrote; keys of different materials differ.
C25_DeriveKey ==
    /\ \A m \in PipeMaterials : Len(DeriveKey(m)) = KeySize
    /\ (pipe.stage = "read" /\ pipe.how = "none")
         => (pipe.out.err = "" <=> pipe.reader = pipe.material)

\* a provider built later from the same material has read a mapping
C25_Witness ==
    /\ ReadBack /\ pipe.isMap /\ pipe.out.err = "" /\ pipe.read.err = ""
    /\ pipe.m # EmptyMap

\* C26: serialization round trip. The mapping readAllUnlocked gives after
\* writeAllUnlocked(m), under the same key, is m: same names, same values, the
\* empty mapping included.
C26_SerializationRoundTrip ==
    (ReadBack /\ pipe.isMap) => pipe.read = [err |-> "", entries |-> pipe.m]

\* a mapping with a quote in a name and a backslash in a value has come back
C26_Witness ==
    /\ ReadBack /\ pipe.isMap
    /\ DOMAIN pipe.m = {<<"A">>, <<"B", "\"">>} /\ pipe.m[<<"B", "\"">>] = <<"\\", "<">>
    /\ pipe.read.entries = pipe.m

(* ------------------- claims about the key prefixes ---------------------- *)
\* what the two functions do in the environment a command runs in, for plain
\* keys, names that carry the prefix of some environment, and a key that
\* begins with a slash
PrefixRoundTrip(cfg) ==
    /\ \A key \in CliKeys \cup {ApplyPrefix(c, k) : c \in EnvCfgs, k \in CliKeys}
                  \cup {<<"/", "A">>} :
          /\ TrimPrefix(cfg, ApplyPrefix(cfg, key)) = key
          /\ cfg.PathPrefix # <<>>
                => /\ ApplyPrefix(cfg, key) = ApplyPrefix([cfg EXCEPT !.Prefix = <<>>], key)
                   /\ TrimPrefix(cfg, key) = TrimPrefix([cfg EXCEPT !.Prefix = <<>>], key)
                   /\ ApplyPrefix(cfg, key)
                        = (IF HasSuffix(cfg.PathPrefix, <<"/">>) THEN cfg.PathPrefix
                           ELSE cfg.PathPrefix \o <<"/">>) \o key
          /\ ~HasPrefix(key, ResolvedPrefix(cfg)) => TrimPrefix(cfg, key) = key

\* C30 as stated: the round trip, the precedence of path_prefix, a name without
\* the prefix left alone, and a path_prefix treated as if it ended with exactly
\* one slash.
C30_AsStated ==
    world # NoWorld
    => /\ PrefixRoundTrip(world.envCfg)
       /\ world.envCfg.PathPrefix # <<>>
            => ~HasSuffix(ResolvedPrefix(world.envCfg), <<"/", "/">>)

\* C30: prefix apply/trim round trip. For every environment (path_prefix set,
\* prefix set, both, neither) and every key, TrimPrefix(cfg, ApplyPrefix(cfg,
\* key)) = key; with both set, path_prefix decides in both functions; a
\* path_prefix that does not end with a slash gets one appended and one that
\* ends with a slash is used as it is; TrimPrefix returns a name that does not
\* start with the prefix unchanged.
C30_PrefixRoundTrip ==
    /\ world # NoWorld => PrefixRoundTrip(world.envCfg)
    /\ (cliOut.cmd = "WriteSecret" /\ cliOut.stage = "done" /\ cliOut.err = ""
          /\ CliRead.err = "")
       => \E n \in DOMAIN CliRead.entries : TrimPrefix(world.envCfg, n) = cliOut.key

\* WriteSecret has stored a key of an environment whose path_prefix ends with
\* two slashes, under a name TrimPrefix gives the key back from
C30_Witness ==
    /\ cliOut.cmd = "WriteSecret" /\ cliOut.stage = "done" /\ cliOut.err = ""
    /\ world.envCfg.PathPrefix = <<"p", "/", "/">>
    /\ CliRead.err = ""
    /\ ApplyPrefix(world.envCfg, cliOut.key) \in DOMAIN CliRead.entries
    /\ ApplyPrefix(world.envCfg, cliOut.key) = <<"p", "/", "/">> \o cliOut.key
    /\ TrimPrefix(world.envCfg, ApplyPrefix(world.envCfg, cliOut.key)) = cliOut.key

(* -------------------- claims about the file modes ----------------------- *)
\* C27: modes of the store. After a successful write the store file has mode
\* 0600 whatever mode the file before it had, a store directory the write
\* created has mode 0700, and at no step is there a file with ciphertext of
\* the write that has a group or other bit set.
C27_StoreModes ==
    fs # NotUsed
    => /\ \A f \in {fs.storeFile, fs.tmpFile} :
             (f.exists /\ f.of \in {"c1", "c2"}) => BitAnd(f.mode, GroupOtherBits) = 0
       /\ (fs.step.op = "writeAllUnlocked" /\ fs.step.pc = "idle")
            => /\ fs.storeFile = File(FilePerm, NonceSize + TagSize, fs.step.of)
               /\ ~fs.tmpFile.exists
               /\ fs.step.madeDir => fs.storeDir.mode = DirPerm

\* a write has replaced a store file of mode 0666
C27_Witness ==
    /\ fs # NotUsed
    /\ fs.step.op = "writeAllUnlocked" /\ fs.step.pc = "idle"
    /\ fs.step.before.exists /\ fs.step.before.mode = 438
    /\ fs.storeFile.mode = FilePerm /\ fs.storeFile.of = fs.step.of

\* C28: key generation. GenerateKeyFile(path) writes 32 random bytes to path
\* with mode 0600 in a parent directory of mode 0700; it fails when the target
\* has content and leaves the key there as it was; no key file it wrote has a
\* permission beyond 0600, also where a file of a wider mode was at the path.
C28_KeyGeneration ==
    (fs # NotUsed /\ fs.step.op = "GenerateKeyFile" /\ fs.step.pc = "idle")
    => IF fs.step.before.exists
       THEN fs.step.err # "" /\ fs.keyFile = fs.step.before
       ELSE /\ fs.step.err = ""
            /\ fs.keyFile = File(FilePerm, KeySize, "rand")
            /\ fs.step.madeDir => fs.keyDir.mode = DirPerm

(* --------------------- claims about the registry ------------------------ *)
\* C29: provider registry. Register panics on an empty type, a nil factory or
\* a type already registered, and leaves the registry as it was; a type once
\* registered stays, with the Info it was registered with; Get returns that
\* Info, and not-found for a type not registered; ListTypes holds each
\* registered type once.
C29_Registry ==
    [][/\ registry # NotUsed
          => \A t \in DOMAIN registry.providers :
                /\ t \in DOMAIN registry'.providers
                /\ registry'.providers[t] = registry.providers[t]
       /\ (registry # NotUsed /\ registry' # registry /\ registry'.call.op = "Register")
          => LET info == registry'.call.info
             IN  IF info.Type = "" \/ info.Factory = "nil"
                      \/ info.Type \in DOMAIN registry.providers
                 THEN /\ registry'.call.panic # ""
                      /\ registry'.providers = registry.providers
                 ELSE /\ registry'.call.panic = ""
                      /\ DOMAIN registry'.providers = DOMAIN registry.providers \cup {info.Type}
                      /\ registry'.providers[info.Type] = info
       /\ (registry # NotUsed /\ registry' # registry /\ registry'.call.op = "Get")
          => /\ registry'.providers = registry.providers
             /\ IF registry'.call.arg \in DOMAIN registry.providers
                THEN /\ registry'.call.ok
                     /\ registry'.call.info = registry.providers[registry'.call.arg]
                ELSE ~registry'.call.ok
       /\ (registry # NotUsed /\ registry' # registry /\ registry'.call.op = "ListTypes")
          => /\ registry'.providers = registry.providers
             /\ Len(registry'.call.types) = Cardinality(DOMAIN registry.providers)
             /\ \A t \in DOMAIN registry.providers :
                   Cardinality({i \in DOMAIN registry'.call.types :
                                   registry'.call.types[i] = t}) = 1]_vars

\* Register of another Info for a type already registered has panicked, and
\* the registry holds the Info of the first registration
C29_Witness ==
    /\ registry # NotUsed
    /\ registry.call.op = "Register" /\ registry.call.panic = "provider type already registered"
    /\ registry.call.arg \in DOMAIN registry.providers
    /\ registry.providers[registry.call.arg] # registry.call.info
    /\ Cardinality(DOMAIN registry.providers) = 2

(* ------------------- claims about the lock scope ----------------------- *)
\* C31: single lock scope. Each Get, List or Set acquires the exclusive lock
\* once and releases it once, and its read and (for Set) its write of the store
\* happen inside that one hold: from the start of its body to the end of it the
\* call has the mutex of its instance, and the OS lock of its handle is neither
\* released nor acquired.
C31_SingleLockHold ==
    [][\A g \in Goroutines :
          /\ InBody(g) => mu[InstOf(g)] = g
          /\ (InBody(g) /\ pc'[g] \in {"read", "encode", "createTemp", "write",
                                        "sync", "rename", "remove", "muUnlock"}) =>
                ((osLock' = InstOf(g)) <=> (osLock = InstOf(g)))]_vars

\* C32: the OS lock is held for the whole critical section. Whenever a goroutine
\* executes the body passed to withExclusiveLock, the OS file lock is held by
\* the handle of its instance, so that no other process has it between a read
\* of the store and the write that follows.
C32_OsLockHeldInBody ==
    \A g \in Goroutines : InBody(g) => osLock = InstOf(g) /\ flockL[InstOf(g)]

\* C33: every modification of the store file, by any code path, happens while
\* the acting process holds the exclusive lock: the store changes only by a
\* step of a goroutine that is in its body with the mutex and the OS lock of
\* its instance; and no store change, the reset of the init wizard included,
\* falls between the read and the write of another process's call.
C33_StoreChangesUnderLock ==
    [][/\ store' # store =>
             \E g \in Goroutines :
                /\ InBody(g) /\ pc'[g] # pc[g]
                /\ mu[InstOf(g)] = g /\ osLock = InstOf(g)
       /\ \A g \in Goroutines :
             (pc[g] \in {"encode", "createTemp", "write", "sync", "rename"}
                 /\ pc'[g] = pc[g]) => store' = store]_vars

(* -------------------- claims about the write path ---------------------- *)
\* C34: write-path ordering. The rename onto the store path is the last
\* file-system step of a write, and comes only after the temporary file was
\* created and given its mode, then received the complete ciphertext, then was
\* synced and closed; the store path is never written directly: the store
\* changes by a rename only, to the complete temporary file.
C34_WriteOrder ==
    [][\A g \in Goroutines :
          /\ store' # store =>
                \E h \in Goroutines :
                   /\ Steps(h, "rename", "muUnlock")
                   /\ store' = tmp[h] /\ tmp[h] = ciphertext[h] /\ ~tmp[h].cut
                   /\ tmp'[h] = Absent /\ ret'[h].err = ""
          /\ (pc'[g] = "rename" /\ pc[g] # "rename") =>
                pc[g] = "sync" /\ tmp[g] = ciphertext[g] /\ tmp'[g] = tmp[g]
          /\ (pc'[g] = "sync" /\ pc[g] # "sync") =>
                pc[g] = "write" /\ tmp[g] = EmptyFile /\ tmp'[g] = ciphertext[g]
          /\ (pc'[g] = "write" /\ pc[g] # "write") =>
                pc[g] = "createTemp" /\ tmp[g] = Absent /\ tmp'[g] = EmptyFile]_vars

\* the rename of a Set has put its temporary file in the place of a store that
\* was there, and writeAllUnlocked has returned success
C34_Witness ==
    \E g \in Goroutines :
       /\ pc[g] = "muUnlock" /\ op[g].kind = "Set" /\ ret[g].err = ""
       /\ tmp[g] = Absent
       /\ StoreReadable /\ DOMAIN StoreEntries = {NameA, NameB}
       /\ StoreEntries[op[g].name] = op[g].value

(* ----------------------- claims about progress ------------------------- *)
\* C35: progress. Once a call has the lock (it is in its body or in its
\* deferred unlocks) its next step never waits on another call; while a call
\* is under way some call can take a step (no deadlock between the OS lock and
\* the mutex); and under a fair scheduler every call that was made returns.
C35_Progress ==
    /\ [](\A g \in Goroutines :
             /\ InBody(g) =>
                   ENABLED (GetBody(g) \/ ListBody(g) \/ SetRead(g)
                              \/ Encode(g) \/ CreateTemp(g) \/ TmpWrite(g) \/ TmpSync(g)
                              \/ Rename(g))
             /\ pc[g] = "muUnlock" => ENABLED MuUnlock(g)
             /\ pc[g] = "unlock" => ENABLED Unlock(g))
    /\ []((\E g \in Goroutines : pc[g] # "idle") =>
             ENABLED (\E g \in Goroutines :
                         \/ FlockAcquire(g) \/ MuLock(g)
                         \/ GetBody(g) \/ ListBody(g) \/ SetRead(g)
                         \/ Encode(g) \/ CreateTemp(g) \/ TmpWrite(g) \/ TmpSync(g)
                         \/ Rename(g)
                         \/ MuUnlock(g) \/ Unlock(g)))
    /\ \A g \in Goroutines : (pc[g] # "idle") ~> (pc[g] = "idle")

(* ------------------- claims about the reading calls -------------------- *)
\* C36: Get and List are read-only. Whatever the store is (absent, empty,
\* valid, undecryptable), the body of a Get or a List ends in one step that
\* leaves the store and the temporary files as they are, no later step of the
\* call changes them, and the store changes by the rename of a Set only: a Get
\* or List on a store that is not there does not create it.
C36_ReadOnly ==
    [][/\ \A g \in Goroutines :
             /\ (pc[g] = "read" /\ pc'[g] # "read" /\ op'[g].kind \in {"Get", "List"}) =>
                   store' = store /\ tmp' = tmp /\ pc'[g] = "muUnlock"
             /\ op[g].kind \in {"Get", "List"} =>
                   /\ pc[g] \in {"muUnlock", "unlock"}
                   /\ pc'[g] # pc[g] => store' = store /\ tmp'[g] = Absent
       /\ store' # store =>
             \E h \in Goroutines : op[h].kind = "Set" /\ pc[h] = "rename"]_vars

\* a List of a store that is not there has given the empty mapping, and the
\* store is still not there
C36_Witness ==
    \E g \in Goroutines :
       /\ pc[g] = "unlock" /\ op[g].kind = "List"
       /\ ret[g] = Ret("", "", EmptyMap)
       /\ store = Absent
       /\ callsLeft = MaxCalls - 1

(* -------------------- claims about the key variable -------------------- *)
\* C37: the key variable. With key_env configured and the variable unset or
\* empty, construction fails with the error of the variable, also when a key
\* file is configured that would pass every check; with the variable not
\* empty, its value is the key material as it is, however short, and the key
\* file is not looked at: construction succeeds whether the file is missing,
\* open to others or too short.
C37_KeyEnvPolicy ==
    (Started /\ world.providerCfg.Path # "" /\ ~CliEnc.nil /\ CliEnc.KeyEnv # "")
    => /\ world.getenv = <<>>
            => /\ cliOut.p.nil
               /\ cliOut.err = "key env var is empty or not set"
       /\ world.getenv # <<>>
            => /\ ~cliOut.p.nil
               /\ cliOut.p.key = deriveKey(world.getenv)
               /\ loadKeyMaterial(CliEnc, world) = [err |-> "", data |-> world.getenv]

\* a command was refused for an empty key variable with a key file of 16 bytes
\* and mode 0600 configured next to it
C37_Witness ==
    /\ Started /\ world.providerCfg.Path # "" /\ ~CliEnc.nil
    /\ CliEnc.KeyEnv # "" /\ CliEnc.KeyFile # ""
    /\ world.getenv = <<>>
    /\ world.keyFile.exists /\ ~KeyFileOpen /\ ~KeyFileShort
    /\ cliOut.p.nil /\ cliOut.err = "key env var is empty or not set"

(* ----------------------- claims about List ----------------------------- *)
\* C38: List loses no entries when stripping prefixes. For every store and
\* every filter, the map List returns has one key for every stored entry that
\* passes the filter (two stored names never come to one returned key), and
\* List("") returns one entry for every stored entry.
C38_ListLosesNothing ==
    [][(CliCalls("List") /\ cliOut'.err = "")
       => LET kept == {n \in DOMAIN CliRead.entries :
                          cliOut'.key = <<>> \/ HasPrefix(n, ensurePrefixSlash(cliOut'.key))}
          IN  /\ Cardinality(DOMAIN cliOut'.records) = Cardinality(kept)
              /\ \A n \in kept :
                    LET base == TrimPrefix(world.envCfg, n)
                    IN  base \in DOMAIN cliOut'.records
                        /\ cliOut'.records[base] = CliRead.entries[n]]_vars

(* ---------------------- claims about deleting -------------------------- *)
\* C39: deleting through the CLI layer. DeleteSecret against the local
\* provider, which has no Delete, returns the 'does not support delete' error
\* and leaves the store as it is, the construction of the provider included; it
\* does not write an empty value for the key.
C39_DeleteUnsupported ==
    [][/\ cliOut'.cmd = "DeleteSecret" => store' = store
       /\ CliCalls("DeleteSecret")
            => /\ cliOut'.err = "provider does not support delete"
               /\ store' = store]_vars

\* a delete of a key the store holds was refused, and the key is still there
\* with its value
C39_Witness ==
    /\ cliOut.cmd = "DeleteSecret" /\ cliOut.stage = "done"
    /\ cliOut.err = "provider does not support delete"
    /\ CliRead.err = ""
    /\ ApplyPrefix(world.envCfg, cliOut.key) \in DOMAIN CliRead.entries
    /\ CliRead.entries[ApplyPrefix(world.envCfg, cliOut.key)] \in Values

====
